---- MODULE Spec2Model ----
(***************************************************************************)
(* The GPS ingestion pipeline of BESTERP: the client of the GPSBuddy API   *)
(* (src/src/services/gpsbuddyClient.js), the persistence layer             *)
(* (src/src/models/gpsModel.js), the refresh job, its timers and its       *)
(* speed-alert tables (src/src/jobs/gpsRefreshJob.js), and the daily       *)
(* counters and read paths of the controller                               *)
(* (src/src/controllers/gpsController.js).                                 *)
(*                                                                         *)
(* An ISO-8601 text, as Date.prototype.toISOString() prints it, is the     *)
(* pair <<date, time of day>>; SQLite compares two such texts field by     *)
(* field, left to right.                                                   *)
(* A table is a bag of rows: SQL keeps two equal rows apart.  Of the       *)
(* columns of a row the model keeps the key, the telemetry time and the    *)
(* four cumulative counters, and for the report the velocity and the       *)
(* coordinates.                                                            *)
(*                                                                         *)
(* The operations are actions over the sets of arguments a specification   *)
(* gives them:                                                             *)
(*   SpecDb        upsertLastAndHistory, from the empty store;             *)
(*   SpecHistory   deleteHistoryOlderThan, getHistory and getHistoryPage,  *)
(*                 applied once to a history of any content;               *)
(*   SpecDaily     addDailyTimesToVehicles, applied once;                  *)
(*   SpecAlert     refreshOnce and checkSpeedOnly as the clock runs;       *)
(*   SpecPipeline  every operation on the store, in any order;             *)
(*   SpecFetch     fetchLiveVehicles and normalizeVehicle, applied once;   *)
(*   SpecToken     ensureToken as the clock runs;                          *)
(*   SpecJob       refreshOnce and checkSpeedOnly under any environment;   *)
(*   SpecSchedule  startGpsRefreshJob, its cron tasks and its interval;    *)
(*   SpecApi       apiLive and apiRefresh;                                 *)
(*   SpecReport    apiDriveStopReport, applied once to a history;          *)
(*   SpecSpeed     checkSpeedOnly as the clock runs, with the readings it  *)
(*                 has been given;                                         *)
(*   SpecRetry     one call of the client, with its requests and sleeps;   *)
(*   SpecRace      ensureToken of two callers, await by await;             *)
(*   SpecToday     getTodayStartValues, applied once to a history.         *)
(***************************************************************************)
EXTENDS Integers, Sequences, FiniteSets, Bags, TLC

VARIABLES
  now,                  \* Date.now(): the wall clock
  gps_vehicle_last,     \* table gps_vehicle_last (LastKnownState)
  gps_vehicle_history,  \* table gps_vehicle_history (HistoryRecord)
  recentSpeedAlerts,    \* Map vehicleId -> lastAlertTime
  maxSpeedTracker,      \* Map vehicleId -> {maxSpeed, timestamp}
  sink,                 \* the alerts handed to chatHandler.sendChannelMessage
  observed,             \* the readings the speed checks have been given
  tokenCache,           \* gpsbuddyClient's tokenCache: {token, expiresAt}
  job,                  \* the refresh job: its timers and the polls in flight
  call,                 \* the operation that ran last, with its arguments
  ret                   \* what that operation returned or raised

vars == <<now, gps_vehicle_last, gps_vehicle_history, recentSpeedAlerts,
          maxSpeedTracker, sink, observed, tokenCache, job, call, ret>>

dbVars == <<gps_vehicle_last, gps_vehicle_history>>
alertVars == <<recentSpeedAlerts, maxSpeedTracker, sink, observed>>
clientVars == <<tokenCache, job>>

(***************************************************************************)
(* Values                                                                  *)
(***************************************************************************)
\* TLC compares only values of one kind, so the two non-numbers a JavaScript
\* number may be are integers no program value takes, and the NULL of a text
\* column is the empty tuple.
NULL == 0 - 1000000   \* JavaScript null / undefined, SQL NULL, of a number
NaN == NULL - 1       \* a non-finite number
NullText == << >>     \* JavaScript null, SQL NULL, of a text

\* The model counts time in seconds: a duration the source gives in
\* milliseconds is Ms(that number).  Every clock reading, telemetry instant
\* and window below is a whole number of seconds.
Ms(n) == n \div 1000

MsPerMinute == Ms(60 * 1000)
MsPerHour == Ms(60 * 60 * 1000)
MsPerDay == Ms(24 * 60 * 60 * 1000)

\* Bounds of the model.
NumVehicles == 2      \* vehicle ids 1..NumVehicles
MaxBatch == 2         \* vehicles in one fetched batch
MaxTelemetry == 2     \* telemetry instants 0..MaxTelemetry half days
MaxDays == 2          \* retention horizons up to MaxDays days
MaxClock == 1         \* half days the clock of the store runs on

VehicleIds == 1..NumVehicles

Max(a, b) == IF a >= b THEN a ELSE b
Min(a, b) == IF a <= b THEN a ELSE b

\* Date.prototype.toISOString(): "YYYY-MM-DD" then "THH:mm:ss.sssZ".
toISOString(ms) == <<ms \div MsPerDay, ms % MsPerDay>>

\* SQLite's comparison of two ISO texts (BINARY collation): the date part
\* decides, then the time of day.
TextLess(a, b) == a[1] < b[1] \/ (a[1] = b[1] /\ a[2] < b[2])

\* The order of ORDER BY time_indicator ASC: NULL sorts before every text.
OrderLE(a, b) == a = NullText \/ (b # NullText /\ ~TextLess(b, a))

coalesceText(v) == IF v = NullText THEN NullText ELSE v

numOrNull(v) == IF v = NULL \/ v = NaN THEN NULL ELSE v

(***************************************************************************)
(* Tables                                                                  *)
(***************************************************************************)
Rows(T) == BagToSet(T)

\* The rows of T that are in the set S, as often as T holds them.
Where(T, S) == [r \in {x \in DOMAIN T : x \in S} |-> T[r]]

Insert(T, r) == T (+) SetToBag({r})

Count(T) == BagCardinality(T)

(***************************************************************************)
(* upsertLastAndHistory                                                    *)
(***************************************************************************)
\* The record bound to both statements: the loop body's `record` and `hist`.
Record(v) ==
  [vehicleid |-> v.vehicleid,
   time_indicator |-> coalesceText(v.time_indicator),
   drivetime |-> numOrNull(v.drivetime),
   worktime |-> numOrNull(v.worktime),
   idletime |-> numOrNull(v.idletime),
   stoptime |-> numOrNull(v.stoptime)]

\* INSERT INTO gps_vehicle_last without its conflict clause.
upsertLastInsert(T, record) == Insert(T, record)

\* INSERT INTO gps_vehicle_last ... ON CONFLICT(vehicleid) DO NOTHING.
upsertLastKeeping(T, record) ==
  IF \E r \in Rows(T) : r.vehicleid = record.vehicleid THEN T
  ELSE Insert(T, record)

\* INSERT INTO gps_vehicle_last ... ON CONFLICT(vehicleid) DO UPDATE SET
\* every column = excluded.column.
upsertLastStmt(T, record) ==
  Insert(Where(T, {r \in Rows(T) : r.vehicleid # record.vehicleid}),
         record)

\* The uniqueness constraint of gps_vehicle_history, on
\* (vehicleid, time_indicator); SQLite never takes two NULLs to conflict.
HistoryConflict(T, hist) ==
  \E r \in Rows(T) : /\ r.vehicleid = hist.vehicleid
                     /\ r.time_indicator # NullText
                     /\ r.time_indicator = hist.time_indicator

\* A plain INSERT into a table that has lost its uniqueness constraint.
insertHistoryAlways(T, hist) == [table |-> Insert(T, hist), changes |-> 1]

\* INSERT OR REPLACE: the incoming row takes the place of the stored one.
insertHistoryOrReplace(T, hist) ==
  [table |-> Insert(Where(T, {r \in Rows(T) :
                                ~(/\ r.vehicleid = hist.vehicleid
                                  /\ r.time_indicator = hist.time_indicator)}),
                    hist),
   changes |-> 1]

\* INSERT OR IGNORE INTO gps_vehicle_history: the statement's result.
insertHistoryStmt(T, hist) ==
  IF HistoryConflict(T, hist)
  THEN [table |-> T, changes |-> 0]
  ELSE [table |-> Insert(T, hist), changes |-> 1]

\* One iteration of `for (const v of items)`.  fail names the statement
\* whose run() throws in this iteration ("none" when neither does).
TxItem(st, v, fail) ==
  LET record == Record(v)
      st1 == [st EXCEPT !.last = upsertLastStmt(st.last, record),
                        !.updated = @ + 1]
  IN IF fail = "last" THEN [st EXCEPT !.threw = TRUE]
     ELSE IF record.time_indicator = NullText THEN st1
     ELSE IF fail = "history" THEN [st1 EXCEPT !.threw = TRUE]
     ELSE LET res == insertHistoryStmt(st1.history, record)
          IN [st1 EXCEPT !.history = res.table,
                         !.historyInserted = @ + res.changes]

RECURSIVE TxBody(_, _, _, _, _)
TxBody(st, items, i, failAt, fail) ==
  IF i > Len(items) \/ st.threw THEN st
  ELSE TxBody(TxItem(st, items[i], IF i = failAt THEN fail ELSE "none"),
              items, i + 1, failAt, fail)

\* The loop run outside a transaction: what was written stays written.
transactionLess(before, after) ==
  [last |-> after.last, history |-> after.history, threw |-> after.threw,
   value |-> IF after.threw THEN NULL
             ELSE [updated |-> after.updated,
                   historyInserted |-> after.historyInserted],
   fault |-> after.threw]

\* db.transaction(fn)(rows): BEGIN, fn, then COMMIT, or ROLLBACK and rethrow
\* when fn throws.
transaction(before, after) ==
  IF after.threw
  THEN [last |-> before.last, history |-> before.history,
        threw |-> TRUE, value |-> NULL, fault |-> after.threw]
  ELSE [last |-> after.last, history |-> after.history, threw |-> FALSE,
        value |-> [updated |-> after.updated,
                   historyInserted |-> after.historyInserted],
        fault |-> after.threw]

upsertLastAndHistory(vehicles, failAt, fail) ==
  LET before == [last |-> gps_vehicle_last, history |-> gps_vehicle_history,
                 updated |-> 0, historyInserted |-> 0, threw |-> FALSE]
  IN IF Len(vehicles) = 0
     THEN [last |-> before.last, history |-> before.history, threw |-> FALSE,
           value |-> [updated |-> 0, historyInserted |-> 0], fault |-> FALSE]
     ELSE transaction(before, TxBody(before, vehicles, 1, failAt, fail))

(***************************************************************************)
(* deleteHistoryOlderThan                                                  *)
(***************************************************************************)
DEFAULT_RETENTION_DAYS == 30

\* WHERE time_indicator IS NOT NULL AND time_indicator <= ?
OlderThanOrAt(r, cutoff) ==
  r.time_indicator # NullText /\ ~TextLess(cutoff, r.time_indicator)

\* WHERE time_indicator IS NOT NULL AND time_indicator < ?
OlderThan(r, cutoff) ==
  r.time_indicator # NullText /\ TextLess(r.time_indicator, cutoff)

deleteHistoryOlderThan(days) ==
  LET safeDays == IF days = NULL THEN DEFAULT_RETENTION_DAYS ELSE days
  IN IF safeDays = NaN \/ safeDays <= 0
     THEN [history |-> gps_vehicle_history, value |-> 0]
     ELSE LET cutoff == toISOString(now - safeDays * MsPerDay)
              kept == Where(gps_vehicle_history,
                            {r \in Rows(gps_vehicle_history) :
                               ~OlderThan(r, cutoff)})
          IN [history |-> kept,
              value |-> Count(gps_vehicle_history) - Count(kept)]

(***************************************************************************)
(* getHistory, getHistoryPage                                              *)
(***************************************************************************)
DEFAULT_LIMIT == 1000
DEFAULT_PAGE_SIZE == 50
PAGE_SIZE_CAP == 50

\* A page number is a multiple of 1/Fraction, kept as its numerator.
Fraction == 2

isFinite(x) == x # NULL /\ x # NaN

floor(x) == x \div Fraction

Reverse(s) == [i \in 1..Len(s) |-> s[Len(s) + 1 - i]]

\* ORDER BY time_indicator ASC.  Rows that tie come in the order the engine
\* finds them; the rows of one vehicle that tie here are equal rows.
RECURSIVE OrderByAsc(_)
OrderByAsc(T) ==
  IF T = EmptyBag THEN << >>
  ELSE LET r == CHOOSE x \in Rows(T) :
                  \A y \in Rows(T) :
                    OrderLE(x.time_indicator, y.time_indicator)
       IN <<r>> \o OrderByAsc(T (-) SetToBag({r}))

\* ORDER BY time_indicator DESC: NULL sorts after every text.
OrderByDesc(T) == Reverse(OrderByAsc(T))

\* LIMIT ? OFFSET ?: a negative limit is no limit, a negative offset none.
LimitOffset(s, limit, offset) ==
  LET from == Max(offset, 0) + 1
      upto == IF limit < 0 THEN Len(s) ELSE Min(Len(s), from + limit - 1)
  IN SubSeq(s, from, upto)

\* vehicleid = ? [AND time_indicator >= ?] [AND time_indicator <= ?]
whereClause(r, vehicleId, sinceIso, untilIso) ==
  /\ r.vehicleid = vehicleId
  /\ sinceIso # NullText
       => /\ r.time_indicator # NullText
          /\ ~TextLess(r.time_indicator, sinceIso)
  /\ untilIso # NullText
       => /\ r.time_indicator # NullText
          /\ ~TextLess(untilIso, r.time_indicator)

\* getHistory that hands the newest-first rows over as they come.
getHistoryNewestFirst(vehicleId, limit, sinceIso, untilIso) ==
  LET lim == IF limit # NULL THEN limit ELSE DEFAULT_LIMIT
      found == Where(gps_vehicle_history,
                     {r \in Rows(gps_vehicle_history) :
                        whereClause(r, vehicleId, sinceIso, untilIso)})
  IN IF sinceIso # NullText \/ untilIso # NullText
     THEN LimitOffset(OrderByAsc(found), lim, 0)
     ELSE LimitOffset(OrderByDesc(found), lim, 0)

\* getHistory that cuts a range at its newest rows, as it cuts the history
\* without a range.
getHistoryRangeNewest(vehicleId, limit, sinceIso, untilIso) ==
  LET lim == IF limit # NULL THEN limit ELSE DEFAULT_LIMIT
      found == Where(gps_vehicle_history,
                     {r \in Rows(gps_vehicle_history) :
                        whereClause(r, vehicleId, sinceIso, untilIso)})
  IN Reverse(LimitOffset(OrderByDesc(found), lim, 0))

getHistory(vehicleId, limit, sinceIso, untilIso) ==
  LET lim == IF limit # NULL THEN limit ELSE DEFAULT_LIMIT
      found == Where(gps_vehicle_history,
                     {r \in Rows(gps_vehicle_history) :
                        whereClause(r, vehicleId, sinceIso, untilIso)})
  IN IF sinceIso # NullText \/ untilIso # NullText
     THEN LimitOffset(OrderByAsc(found), lim, 0)
     ELSE Reverse(LimitOffset(OrderByDesc(found), lim, 0))

\* getHistoryPage that takes the requested page size as it is.
getHistoryPageUncapped(vehicleId, page, pageSize, sinceIso, untilIso) ==
  LET pageSize0 == IF pageSize # NULL THEN pageSize ELSE DEFAULT_PAGE_SIZE
      page0 == IF page # NULL THEN page ELSE 1 * Fraction
      safePageSize == IF isFinite(pageSize0) /\ pageSize0 > 0
                      THEN pageSize0 ELSE PAGE_SIZE_CAP
      safePage == IF isFinite(page0) /\ page0 > 0 THEN floor(page0) ELSE 1
      offset == (safePage - 1) * safePageSize
      found == Where(gps_vehicle_history,
                     {r \in Rows(gps_vehicle_history) :
                        whereClause(r, vehicleId, sinceIso, untilIso)})
      rowsDesc == LimitOffset(OrderByDesc(found), safePageSize, offset)
  IN [rows |-> Reverse(rowsDesc), total |-> Count(found),
      page |-> safePage, pageSize |-> safePageSize]

getHistoryPage(vehicleId, page, pageSize, sinceIso, untilIso) ==
  LET pageSize0 == IF pageSize # NULL THEN pageSize ELSE DEFAULT_PAGE_SIZE
      page0 == IF page # NULL THEN page ELSE 1 * Fraction
      safePageSize == IF isFinite(pageSize0) /\ pageSize0 > 0
                      THEN Min(pageSize0, PAGE_SIZE_CAP) ELSE PAGE_SIZE_CAP
      safePage == IF isFinite(page0) /\ page0 > 0 THEN floor(page0) ELSE 1
      offset == (safePage - 1) * safePageSize
      found == Where(gps_vehicle_history,
                     {r \in Rows(gps_vehicle_history) :
                        whereClause(r, vehicleId, sinceIso, untilIso)})
      rowsDesc == LimitOffset(OrderByDesc(found), safePageSize, offset)
  IN [rows |-> Reverse(rowsDesc), total |-> Count(found),
      page |-> safePage, pageSize |-> safePageSize]

(***************************************************************************)
(* getTodayStartValues, addDailyTimesToVehicles                            *)
(***************************************************************************)
turkeyOffset == Ms(3 * 60 * 60 * 1000)

\* x || 0 of a number column.
OrZero(x) == IF x = NULL \/ x = NaN \/ x = 0 THEN 0 ELSE x

\* Midnight of the current day of the clock of UTC+3, as an ISO text of UTC.
todayStartIso ==
  LET utcToday == now + turkeyOffset
      todayStr == toISOString(utcToday)[1]
  IN toISOString(todayStr * MsPerDay - turkeyOffset)

\* The first row of today of each vehicle that has one, as a Map.
getTodayStartValues ==
  LET today == {r \in Rows(gps_vehicle_history) :
                  /\ r.time_indicator # NullText
                  /\ ~TextLess(r.time_indicator, todayStartIso)}
      min_time(id) ==
        CHOOSE t \in {r.time_indicator : r \in {x \in today : x.vehicleid = id}} :
          \A r \in today : r.vehicleid = id => ~TextLess(r.time_indicator, t)
      first(id) ==
        CHOOSE h \in Rows(gps_vehicle_history) :
          h.vehicleid = id /\ h.time_indicator = min_time(id)
  IN [id \in {r.vehicleid : r \in today} |->
        [drivetime |-> OrZero(first(id).drivetime),
         worktime |-> OrZero(first(id).worktime),
         idletime |-> OrZero(first(id).idletime),
         stoptime |-> OrZero(first(id).stoptime)]]

\* addDailyTimesToVehicles that hands the difference over as it is.
addDailyTimesUnclamped(vehicles) ==
  LET todayStart == getTodayStartValues
      daily(v) ==
        IF v.vehicleid \in DOMAIN todayStart
        THEN LET start == todayStart[v.vehicleid]
             IN [dailyDrivetime |-> OrZero(v.drivetime) - start.drivetime,
                 dailyWorktime |-> OrZero(v.worktime) - start.worktime,
                 dailyIdletime |-> OrZero(v.idletime) - start.idletime,
                 dailyStoptime |-> OrZero(v.stoptime) - start.stoptime]
        ELSE [dailyDrivetime |-> OrZero(v.drivetime),
              dailyWorktime |-> OrZero(v.worktime),
              dailyIdletime |-> OrZero(v.idletime),
              dailyStoptime |-> OrZero(v.stoptime)]
  IN [i \in 1..Len(vehicles) |-> daily(vehicles[i])]

\* The daily fields the loop sets on each vehicle, in the order of the
\* vehicles.
addDailyTimesToVehicles(vehicles) ==
  LET todayStart == getTodayStartValues
      daily(v) ==
        IF v.vehicleid \in DOMAIN todayStart
        THEN LET start == todayStart[v.vehicleid]
             IN [dailyDrivetime |->
                   Max(0, OrZero(v.drivetime) - start.drivetime),
                 dailyWorktime |->
                   Max(0, OrZero(v.worktime) - start.worktime),
                 dailyIdletime |->
                   Max(0, OrZero(v.idletime) - start.idletime),
                 dailyStoptime |->
                   Max(0, OrZero(v.stoptime) - start.stoptime)]
        ELSE [dailyDrivetime |-> OrZero(v.drivetime),
              dailyWorktime |-> OrZero(v.worktime),
              dailyIdletime |-> OrZero(v.idletime),
              dailyStoptime |-> OrZero(v.stoptime)]
  IN [i \in 1..Len(vehicles) |-> daily(vehicles[i])]

(***************************************************************************)
(* checkSpeedViolations                                                    *)
(***************************************************************************)
SPEED_ALERT_COOLDOWN == Ms(5 * 60 * 1000)
MAX_SPEED_WINDOW == Ms(5 * 60 * 1000)
SPEED_LIMIT == 94

\* Map.prototype.has, get, set and delete, on a function.
Has(m, k) == k \in DOMAIN m
Set(m, k, x) == [j \in DOMAIN m \cup {k} |-> IF j = k THEN x ELSE m[j]]
Delete(m, keys) == [j \in DOMAIN m \ keys |-> m[j]]

\* v.velocity != null ? Number(v.velocity) : 0
VelocityOf(v) == IF v.velocity # NULL THEN v.velocity ELSE 0

\* vehicles.filter(v => Number(v.velocity || 0) >= SPEED_LIMIT), by id.
speeders(vehicles) ==
  LET over == SelectSeq(vehicles, LAMBDA v : VelocityOf(v) >= SPEED_LIMIT)
  IN [i \in 1..Len(over) |-> over[i].vehicleid]

\* First pass: the max-speed entry of every vehicle at or over the limit.
RECURSIVE FirstPass(_, _, _)
FirstPass(tracker, vehicles, i) ==
  IF i > Len(vehicles) THEN tracker
  ELSE LET v == vehicles[i]
           velocity == VelocityOf(v)
           vehicleId == v.vehicleid
           update ==
             \/ ~Has(tracker, vehicleId)
             \/ now - tracker[vehicleId].timestamp > MAX_SPEED_WINDOW
             \/ velocity > tracker[vehicleId].maxSpeed
       IN FirstPass(IF velocity >= SPEED_LIMIT /\ update
                    THEN Set(tracker, vehicleId,
                             [maxSpeed |-> velocity, timestamp |-> now])
                    ELSE tracker,
                    vehicles, i + 1)

\* The text of an alert that names the maximum of the window whatever the
\* current speed is.
alertTextAlways(velocity, maxSpeed) ==
  [velocity |-> velocity, windowMax |-> <<maxSpeed>>]

\* The text of an alert, of which the model keeps the two speeds: the
\* current one, and " (Son 5dk max: ${maxSpeed} km/h)" when maxSpeed is
\* the higher.
alertText(velocity, maxSpeed) ==
  [velocity |-> velocity,
   windowMax |-> IF maxSpeed > velocity THEN <<maxSpeed>> ELSE << >>]

\* The message of one alert: its channel, its text and its metadata.  The
\* vehicles of the model carry no plate, driver name or address, for which
\* the code writes 'Bilinmiyor'.
Alert(vehicleId, velocity, maxSpeed) ==
  [channel |-> "driver-alerts", text |-> alertText(velocity, maxSpeed),
   type |-> "speed_violation", vehicleId |-> vehicleId,
   plate |-> "Bilinmiyor", velocity |-> velocity, maxSpeed |-> maxSpeed,
   driver |-> "Bilinmiyor", location |-> "Bilinmiyor",
   timestamp |-> toISOString(now)]

\* Second pass with the cooldown at or over which an alert is due again.
SecondPassEager(st, tracker, vehicles, i, sinkUp) ==
  LET v == vehicles[i]
      velocity == VelocityOf(v)
      vehicleId == v.vehicleid
      due == \/ ~Has(st.recent, vehicleId)
             \/ now - st.recent[vehicleId] >= SPEED_ALERT_COOLDOWN
      maxSpeed == IF Has(tracker, vehicleId)
                  THEN tracker[vehicleId].maxSpeed ELSE velocity
  IN IF velocity >= SPEED_LIMIT /\ due
     THEN [recent |-> Set(st.recent, vehicleId, now),
           sent |-> IF sinkUp
                    THEN Append(st.sent, Alert(vehicleId, velocity, maxSpeed))
                    ELSE st.sent,
           missed |-> IF sinkUp THEN st.missed
                      ELSE st.missed \cup {vehicleId}]
     ELSE st

\* Second pass that sets no debounce entry.
SecondPassForgetful(st, tracker, vehicles, i, sinkUp) ==
  LET v == vehicles[i]
      velocity == VelocityOf(v)
      vehicleId == v.vehicleid
      due == \/ ~Has(st.recent, vehicleId)
             \/ now - st.recent[vehicleId] > SPEED_ALERT_COOLDOWN
      maxSpeed == IF Has(tracker, vehicleId)
                  THEN tracker[vehicleId].maxSpeed ELSE velocity
  IN IF velocity >= SPEED_LIMIT /\ due
     THEN [recent |-> st.recent,
           sent |-> IF sinkUp
                    THEN Append(st.sent, Alert(vehicleId, velocity, maxSpeed))
                    ELSE st.sent,
           missed |-> IF sinkUp THEN st.missed
                      ELSE st.missed \cup {vehicleId}]
     ELSE st

\* Second pass, one vehicle, with the debounce entry set only when the alert
\* goes to the sink.
SecondPassDelivered(st, tracker, vehicles, i, sinkUp) ==
  LET v == vehicles[i]
      velocity == VelocityOf(v)
      vehicleId == v.vehicleid
      due == \/ ~Has(st.recent, vehicleId)
             \/ now - st.recent[vehicleId] > SPEED_ALERT_COOLDOWN
      maxSpeed == IF Has(tracker, vehicleId)
                  THEN tracker[vehicleId].maxSpeed ELSE velocity
  IN IF velocity >= SPEED_LIMIT /\ due
     THEN [recent |-> IF sinkUp THEN Set(st.recent, vehicleId, now)
                      ELSE st.recent,
           sent |-> IF sinkUp
                    THEN Append(st.sent, Alert(vehicleId, velocity, maxSpeed))
                    ELSE st.sent,
           missed |-> IF sinkUp THEN st.missed
                      ELSE st.missed \cup {vehicleId}]
     ELSE st

\* Second pass, one vehicle: the debounce entry is set, then the alert goes
\* to the sink when chatHandler.sendChannelMessage is a function.
SecondPassItem(st, tracker, vehicles, i, sinkUp) ==
  LET v == vehicles[i]
      velocity == VelocityOf(v)
      vehicleId == v.vehicleid
      due == \/ ~Has(st.recent, vehicleId)
             \/ now - st.recent[vehicleId] > SPEED_ALERT_COOLDOWN
      maxSpeed == IF Has(tracker, vehicleId)
                  THEN tracker[vehicleId].maxSpeed ELSE velocity
  IN IF velocity >= SPEED_LIMIT /\ due
     THEN [recent |-> Set(st.recent, vehicleId, now),
           sent |-> IF sinkUp
                    THEN Append(st.sent, Alert(vehicleId, velocity, maxSpeed))
                    ELSE st.sent,
           missed |-> IF sinkUp THEN st.missed
                      ELSE st.missed \cup {vehicleId}]
     ELSE st

RECURSIVE SecondPass(_, _, _, _, _)
SecondPass(st, tracker, vehicles, i, sinkUp) ==
  IF i > Len(vehicles) THEN st
  ELSE SecondPass(SecondPassItem(st, tracker, vehicles, i, sinkUp),
                  tracker, vehicles, i + 1, sinkUp)

\* The two sweeps that end the call.
SweepAlerts(recent) ==
  Delete(recent, {id \in DOMAIN recent :
                    now - recent[id] > SPEED_ALERT_COOLDOWN * 2})

\* SweepTracker that keeps an entry for two windows.
SweepTrackerLate(tracker) ==
  Delete(tracker, {id \in DOMAIN tracker :
                     now - tracker[id].timestamp > MAX_SPEED_WINDOW * 2})

SweepTracker(tracker) ==
  Delete(tracker, {id \in DOMAIN tracker :
                     now - tracker[id].timestamp > MAX_SPEED_WINDOW})

\* The two tables after the call, the alerts the sink received, in order,
\* and the vehicles whose alert found no sink.
checkSpeedViolations(vehicles, sinkUp) ==
  LET tracker == FirstPass(maxSpeedTracker, vehicles, 1)
      st == SecondPass([recent |-> recentSpeedAlerts, sent |-> << >>,
                        missed |-> {}],
                       tracker, vehicles, 1, sinkUp)
  IN [recentSpeedAlerts |-> SweepAlerts(st.recent),
      maxSpeedTracker |-> SweepTracker(tracker),
      sent |-> st.sent, missed |-> st.missed]

(***************************************************************************)
(* The persistence layer as a state machine                                *)
(***************************************************************************)
HalfDay == MsPerDay \div 2

\* The clock starts two days after the epoch of the telemetry instants.
StartTime == 2 * MsPerDay

TelemetryInstants == {k * HalfDay : k \in 0..MaxTelemetry}

TimeIndicators == {toISOString(t) : t \in TelemetryInstants}

Counters == {80, 100}

\* A normalized vehicle as fetchLiveVehicles returns it.
Vehicle(id, vel, ti, dt, wt, it, st) ==
  [vehicleid |-> id, velocity |-> vel, time_indicator |-> ti,
   drivetime |-> dt, worktime |-> wt, idletime |-> it, stoptime |-> st]

SeqsUpTo(S, n) == UNION {[1..k -> S] : k \in 0..n}

Threw == [threw |-> TRUE, value |-> NULL]
Returned(v) == [threw |-> FALSE, value |-> v]

\* A sink that has received nothing.
NoAlerts == [received |-> {}, missed |-> {}, batch |-> << >>]

\* const tokenCache = {token: null, expiresAt: 0}
EmptyTokenCache == [token |-> NULL, expiresAt |-> 0]

\* The refresh job before startGpsRefreshJob: no timer runs, no poll is in
\* flight.
NotStarted ==
  [started |-> FALSE, timers |-> {}, nextCheck |-> 0, lastCron |-> 0,
   lastCleanup |-> 0, inFlight |-> << >>, logged |-> {}]

Idle ==
  /\ now = StartTime
  /\ gps_vehicle_last = EmptyBag
  /\ gps_vehicle_history = EmptyBag
  /\ recentSpeedAlerts = << >>
  /\ maxSpeedTracker = << >>
  /\ sink = NoAlerts
  /\ observed = {}
  /\ tokenCache = EmptyTokenCache
  /\ job = NotStarted
  /\ call = [op |-> "none"]
  /\ ret = Returned(NULL)

\* A call of upsertLastAndHistory(vehicles); the statement that throws, if
\* one does, is the environment's choice, and call.fault tells whether one
\* did.
UpsertLastAndHistory(batches) ==
  \E vehicles \in batches, failAt \in 0..MaxBatch, fail \in {"last", "history"} :
    /\ failAt <= Len(vehicles)
    /\ failAt = 0 => fail = "last"
    /\ \E r \in {upsertLastAndHistory(vehicles, failAt, fail)} :
          /\ gps_vehicle_last' = r.last
          /\ gps_vehicle_history' = r.history
          /\ call' = [op |-> "upsertLastAndHistory", vehicles |-> vehicles,
                       fault |-> r.fault]
          /\ ret' = IF r.threw THEN Threw ELSE Returned(r.value)
    /\ UNCHANGED <<now, alertVars, clientVars>>

\* A record with only its vehicleId: valid, and without telemetry.
OnlyId(id) == Vehicle(id, NULL, NullText, NULL, NULL, NULL, NULL)

\* The vehicles SpecDb feeds the store with: a record with only its id, or
\* one telemetry instant with a drive counter that varies.
UpsertVehicles ==
  {OnlyId(id) : id \in VehicleIds}
  \cup {Vehicle(id, NULL, toISOString(0), dt, NULL, NULL, NULL) :
          id \in VehicleIds, dt \in Counters}

InitDb == Idle

NextDb == UpsertLastAndHistory(SeqsUpTo(UpsertVehicles, MaxBatch))

SpecDb == InitDb /\ [][NextDb]_vars

(***************************************************************************)
(* Claims about upsertLastAndHistory, under SpecDb                         *)
(***************************************************************************)
KeyRows(T, id, ti) ==
  Where(T, {r \in Rows(T) : r.vehicleid = id /\ r.time_indicator = ti})

VehicleRows(T, id) == Where(T, {r \in Rows(T) : r.vehicleid = id})

Upserted == call'.op = "upsertLastAndHistory"

\* C3.  Upsert idempotence: a successful call with one vehicle and a
\* non-null timeIndicator leaves exactly one history row of that (vehicleId,
\* timeIndicator) and exactly one last-state row of that vehicleId, and
\* reports updated = 1; when the key was already stored, as after the same
\* call made just before, it reports historyInserted = 0, else 1.
UpsertIdempotent ==
  [][(/\ Upserted
      /\ ~ret'.threw
      /\ Len(call'.vehicles) = 1
      /\ call'.vehicles[1].time_indicator # NullText)
     => LET v == call'.vehicles[1]
            stored == Count(KeyRows(gps_vehicle_history, v.vehicleid,
                                    v.time_indicator)) > 0
            again == call = call' /\ ~ret.threw
        IN /\ Count(KeyRows(gps_vehicle_history', v.vehicleid,
                            v.time_indicator)) = 1
           /\ Count(VehicleRows(gps_vehicle_last', v.vehicleid)) = 1
           /\ ret'.value.updated = 1
           /\ ret'.value.historyInserted = (IF stored \/ again THEN 0 ELSE 1)
    ]_vars

\* The second of two equal calls has returned.
UpsertIdempotentWitness ==
  /\ call.op = "upsertLastAndHistory"
  /\ ~ret.threw
  /\ Len(call.vehicles) = 1
  /\ call.vehicles[1].time_indicator # NullText
  /\ ret.value = [updated |-> 1, historyInserted |-> 0]
  /\ Count(KeyRows(gps_vehicle_history, call.vehicles[1].vehicleid,
                   call.vehicles[1].time_indicator)) = 1

\* C4.  All-or-nothing: when a statement of the batch throws, the call
\* raises, and both tables are as they were before the call.
UpsertAllOrNothing ==
  [][(Upserted /\ call'.fault)
     => /\ ret'.threw
        /\ gps_vehicle_last' = gps_vehicle_last
        /\ gps_vehicle_history' = gps_vehicle_history
    ]_vars

\* A batch of two vehicles has failed over a store that holds rows.
UpsertAllOrNothingWitness ==
  /\ call.op = "upsertLastAndHistory"
  /\ call.fault
  /\ ret.threw
  /\ Len(call.vehicles) = 2
  /\ call.vehicles[1].vehicleid # call.vehicles[2].vehicleid
  /\ call.vehicles[1].time_indicator # NullText
  /\ Count(gps_vehicle_last) = 1
  /\ Count(gps_vehicle_history) = 0

\* C5.  History is append-only under upsert: every stored row stays, as it
\* is and once; every added row is the record of a vehicle of the batch
\* whose timeIndicator is non-null; a key that was stored keeps its rows.
HistoryAppendOnly ==
  [][Upserted
     => /\ \A r \in Rows(gps_vehicle_history) :
             CopiesIn(r, gps_vehicle_history')
               = CopiesIn(r, gps_vehicle_history)
        /\ \A r \in Rows(gps_vehicle_history') \ Rows(gps_vehicle_history) :
             /\ r.time_indicator # NullText
             /\ \E i \in 1..Len(call'.vehicles) :
                  /\ call'.vehicles[i].time_indicator # NullText
                  /\ r = Record(call'.vehicles[i])
        /\ \A i \in 1..Len(call'.vehicles) :
             LET v == call'.vehicles[i]
                 was == KeyRows(gps_vehicle_history, v.vehicleid,
                                v.time_indicator)
             IN Count(was) > 0
                => KeyRows(gps_vehicle_history', v.vehicleid,
                           v.time_indicator) = was
    ]_vars

\* A record has come in whose key is stored with another drive counter: the
\* stored row has kept its own.
HistoryAppendOnlyWitness ==
  /\ call.op = "upsertLastAndHistory"
  /\ ~ret.threw
  /\ Len(call.vehicles) = 1
  /\ ret.value.historyInserted = 0
  /\ call.vehicles[1].time_indicator # NullText
  /\ \E r \in Rows(gps_vehicle_history) :
       /\ r.vehicleid = call.vehicles[1].vehicleid
       /\ r.time_indicator = call.vehicles[1].time_indicator
       /\ r.drivetime # call.vehicles[1].drivetime

\* The place of the last record of a vehicle in a batch.
LastOf(vehicles, id) ==
  CHOOSE i \in 1..Len(vehicles) :
    /\ vehicles[i].vehicleid = id
    /\ \A j \in (i + 1)..Len(vehicles) : vehicles[j].vehicleid # id

\* C33.  After a call of upsertLastAndHistory that succeeds, for each
\* vehicle of the batch the one row of gps_vehicle_last is the last record
\* of that vehicle in the order of the batch, whatever row and
\* timeIndicator were stored before; each record with a timeIndicator has
\* a history row of its key; updated is the length of the batch and
\* historyInserted the number of rows the history has grown by.
LastAndHistoryAgree ==
  [][(Upserted /\ ~ret'.threw)
     => /\ \A i \in 1..Len(call'.vehicles) :
             LET v == call'.vehicles[i]
                 final == Record(call'.vehicles[LastOf(call'.vehicles,
                                                       v.vehicleid)])
             IN /\ VehicleRows(gps_vehicle_last', v.vehicleid)
                     = SetToBag({final})
                /\ v.time_indicator # NullText
                     => Count(KeyRows(gps_vehicle_history', v.vehicleid,
                                      v.time_indicator)) = 1
        /\ ret'.value.updated = Len(call'.vehicles)
        /\ ret'.value.historyInserted
             = Count(gps_vehicle_history') - Count(gps_vehicle_history)
    ]_vars

\* Vehicle 1 was stored with a timeIndicator and a drive counter of 100;
\* a batch has brought it twice, with the same timeIndicator and a counter
\* of 80 and then without timeIndicator: the last state is the second
\* record, and the history has not grown.
LastAndHistoryAgreeWitness ==
  /\ call.op = "upsertLastAndHistory"
  /\ ~ret.threw
  /\ call.vehicles = <<Vehicle(1, NULL, toISOString(0), 80, NULL, NULL, NULL),
                       OnlyId(1)>>
  /\ ret.value = [updated |-> 2, historyInserted |-> 0]
  /\ gps_vehicle_last = SetToBag({Record(OnlyId(1))})
  /\ \E r \in Rows(gps_vehicle_history) :
       r.vehicleid = 1 /\ r.drivetime = 100

(***************************************************************************)
(* The history table under deleteHistoryOlderThan, getHistory and          *)
(* getHistoryPage: one operation applied to a table of any content         *)
(***************************************************************************)
MaxSurplus == 2       \* rows a long history holds beyond one full page

HistoryRow(id, ti) == Record(Vehicle(id, NULL, ti, NULL, NULL, NULL, NULL))

\* A row stored without telemetry time.
LegacyRow(id) == HistoryRow(id, NullText)

\* A short history: any set of (vehicle, instant) keys, and the vehicles
\* that have a row without time.
ShortTable(keys, legacy) ==
  SetToBag({HistoryRow(k[1], k[2]) : k \in keys}
           \cup {LegacyRow(id) : id \in legacy})

\* A long history of vehicle 1: one row an hour, n rows.
LongTable(n) ==
  SetToBag({HistoryRow(1, toISOString(k * MsPerHour)) : k \in 0..(n - 1)})

HistoryTables ==
  {ShortTable(keys, legacy) :
     keys \in SUBSET (VehicleIds \X TimeIndicators),
     legacy \in SUBSET VehicleIds}
  \cup {LongTable(PAGE_SIZE_CAP + k) : k \in 0..MaxSurplus}

Clocks == {StartTime + k * HalfDay : k \in 0..MaxClock}

\* days: missing, not a number, negative, zero, or a number of days.
DayArgs == {NULL, NaN, 0 - 1, 0} \cup 1..MaxDays

RangeArgs == {NullText} \cup (TimeIndicators \ {toISOString(0)})

LimitArgs == {NULL, 0, 1, 2, PAGE_SIZE_CAP + 1}

PageSizeArgs == {NULL, NaN, 0 - 1, 0, 1, 2, PAGE_SIZE_CAP, PAGE_SIZE_CAP + 1}

\* page: missing, not a number, negative, zero, and every multiple of
\* 1/Fraction up to three.
PageArgs == {NULL, NaN, 0 - Fraction} \cup 0..(3 * Fraction)

DeleteHistoryOlderThan(dayArgs) ==
  \E days \in dayArgs :
    /\ \E r \in {deleteHistoryOlderThan(days)} :
          /\ gps_vehicle_history' = r.history
          /\ ret' = Returned(r.value)
    /\ call' = [op |-> "deleteHistoryOlderThan", days |-> days]
    /\ UNCHANGED <<now, gps_vehicle_last, alertVars, clientVars>>

GetHistory(ids, limits, ranges) ==
  \E vehicleId \in ids, limit \in limits, sinceIso \in ranges,
     untilIso \in ranges :
    /\ ret' = Returned(getHistory(vehicleId, limit, sinceIso, untilIso))
    /\ call' = [op |-> "getHistory", vehicleId |-> vehicleId,
                limit |-> limit, sinceIso |-> sinceIso,
                untilIso |-> untilIso]
    /\ UNCHANGED <<now, dbVars, alertVars, clientVars>>

GetHistoryPage(ids, pages, pageSizes, ranges) ==
  \E vehicleId \in ids, page \in pages, pageSize \in pageSizes,
     sinceIso \in ranges, untilIso \in ranges :
    /\ ret' = Returned(getHistoryPage(vehicleId, page, pageSize, sinceIso,
                                      untilIso))
    /\ call' = [op |-> "getHistoryPage", vehicleId |-> vehicleId,
                page |-> page, pageSize |-> pageSize, sinceIso |-> sinceIso,
                untilIso |-> untilIso]
    /\ UNCHANGED <<now, dbVars, alertVars, clientVars>>

InitHistory ==
  /\ now \in Clocks
  /\ gps_vehicle_last = EmptyBag
  /\ gps_vehicle_history \in HistoryTables
  /\ recentSpeedAlerts = << >>
  /\ maxSpeedTracker = << >>
  /\ sink = NoAlerts
  /\ observed = {}
  /\ tokenCache = EmptyTokenCache
  /\ job = NotStarted
  /\ call = [op |-> "none"]
  /\ ret = Returned(NULL)

\* Each behaviour applies one operation to the table it starts with.
DeleteOnce == call.op = "none" /\ DeleteHistoryOlderThan(DayArgs)

GetHistoryOnce ==
  call.op = "none" /\ GetHistory(VehicleIds, LimitArgs, RangeArgs)

GetHistoryPageOnce ==
  /\ call.op = "none"
  /\ GetHistoryPage(VehicleIds, PageArgs, PageSizeArgs, RangeArgs)

NextHistory == DeleteOnce \/ GetHistoryOnce \/ GetHistoryPageOnce

SpecHistory == InitHistory /\ [][NextHistory]_vars

(***************************************************************************)
(* Claims about the history queries, under SpecHistory                     *)
(***************************************************************************)
\* The instant an ISO text names.
InstantOf(iso) == iso[1] * MsPerDay + iso[2]

Ascending(rows) ==
  \A i, j \in 1..Len(rows) :
    i < j => OrderLE(rows[i].time_indicator, rows[j].time_indicator)

\* The rows a sequence holds, as a bag.
RECURSIVE BagOf(_)
BagOf(rows) ==
  IF rows = << >> THEN EmptyBag
  ELSE SetToBag({Head(rows)}) (+) BagOf(Tail(rows))

\* A row of the vehicle inside the range [sinceIso, untilIso], by instants.
InsideRange(r, vehicleId, sinceIso, untilIso) ==
  /\ r.vehicleid = vehicleId
  /\ sinceIso # NullText
       => /\ r.time_indicator # NullText
          /\ InstantOf(r.time_indicator) >= InstantOf(sinceIso)
  /\ untilIso # NullText
       => /\ r.time_indicator # NullText
          /\ InstantOf(r.time_indicator) <= InstantOf(untilIso)

Matching(vehicleId, sinceIso, untilIso) ==
  Where(gps_vehicle_history,
        {r \in Rows(gps_vehicle_history) :
           InsideRange(r, vehicleId, sinceIso, untilIso)})

\* C6.  getHistory returns stored rows of the vehicle in ascending
\* timeIndicator order, all inside the requested range and no more than
\* limit of them; without a range they are the limit most recent rows of the
\* vehicle: as many as limit allows, and none of the rows left out is more
\* recent than a returned one.
GetHistoryOrdered ==
  call.op = "getHistory"
  => LET rows == ret.value
         limit == IF call.limit = NULL THEN DEFAULT_LIMIT ELSE call.limit
         inRange == Matching(call.vehicleId, call.sinceIso, call.untilIso)
         leftOut == inRange (-) BagOf(rows)
     IN /\ Ascending(rows)
        /\ BagOf(rows) \sqsubseteq inRange
        /\ Len(rows) <= limit
        /\ (call.sinceIso = NullText /\ call.untilIso = NullText)
             => /\ Len(rows) = Min(limit, Count(inRange))
                /\ \A r \in Rows(leftOut), i \in 1..Len(rows) :
                     OrderLE(r.time_indicator, rows[i].time_indicator)

\* Without a range, the limit has cut the older rows of the vehicle away,
\* and a row of the other vehicle is stored.
GetHistoryOrderedWitness ==
  /\ call.op = "getHistory"
  /\ call.sinceIso = NullText
  /\ call.untilIso = NullText
  /\ call.limit = 2
  /\ Count(Matching(call.vehicleId, NullText, NullText)) = 4
  /\ Count(gps_vehicle_history) > 4
  /\ Len(ret.value) = 2
  /\ TextLess(ret.value[1].time_indicator, ret.value[2].time_indicator)

\* C7.  getHistoryPage returns at most 50 rows; pageSize is min(requested,
\* 50), or 50 when the request is missing, non-finite or non-positive; page
\* is the floor of the requested page, or 1 when that is missing, non-finite
\* or non-positive; total counts the rows of the vehicle in the range; the
\* rows are stored rows in the range, in ascending timeIndicator order.
GetHistoryPageCapped ==
  call.op = "getHistoryPage"
  => LET res == ret.value
         inRange == Matching(call.vehicleId, call.sinceIso, call.untilIso)
         fallback(x) == x = NULL \/ x = NaN \/ x <= 0
     IN /\ Len(res.rows) <= 50
        /\ Len(res.rows) <= res.pageSize
        /\ res.pageSize = (IF fallback(call.pageSize) THEN 50
                           ELSE Min(call.pageSize, 50))
        /\ IF fallback(call.page) THEN res.page = 1
           ELSE /\ res.page * Fraction <= call.page
                /\ (res.page + 1) * Fraction > call.page
        /\ res.total = Count(inRange)
        /\ BagOf(res.rows) \sqsubseteq inRange
        /\ Ascending(res.rows)

\* A request for 51 rows a page over a history of more than 50 rows has
\* returned 50 rows, in order.
GetHistoryPageCappedWitness ==
  /\ call.op = "getHistoryPage"
  /\ call.pageSize = PAGE_SIZE_CAP + 1
  /\ call.page = Fraction + 1
  /\ ret.value.total = PAGE_SIZE_CAP + 1
  /\ ret.value.page = 1
  /\ ret.value.pageSize = 50
  /\ Len(ret.value.rows) = 50
  /\ TextLess(ret.value.rows[1].time_indicator,
              ret.value.rows[50].time_indicator)

\* The rows of T that are newer than r, and those that are older; a row
\* without timeIndicator is older than every row with one.
NewerThan(r, T) ==
  {x \in Rows(T) : x # r /\ OrderLE(r.time_indicator, x.time_indicator)}

OlderThanRow(r, T) ==
  {x \in Rows(T) : x # r /\ OrderLE(x.time_indicator, r.time_indicator)}

RowsIn(rows) == {rows[i] : i \in 1..Len(rows)}

\* C37.  The history queries cut at different ends: getHistory with a range
\* returns the oldest limit rows of the range, getHistory without a range
\* the newest limit rows of the vehicle, and getHistoryPage numbers its
\* pages from the newest rows: page n holds the rows that have
\* (n - 1) x pageSize to n x pageSize - 1 newer rows in the range, so that
\* page 1 holds the most recent pageSize rows and every row of page n + 1
\* is older than every row of page n.
TruncationDirection ==
  /\ call.op = "getHistory"
       => LET limit == IF call.limit = NULL THEN DEFAULT_LIMIT ELSE call.limit
              inRange == Matching(call.vehicleId, call.sinceIso,
                                  call.untilIso)
          IN IF call.sinceIso # NullText \/ call.untilIso # NullText
             THEN RowsIn(ret.value)
                    = {r \in Rows(inRange) :
                         Cardinality(OlderThanRow(r, inRange)) < limit}
             ELSE RowsIn(ret.value)
                    = {r \in Rows(inRange) :
                         Cardinality(NewerThan(r, inRange)) < limit}
  /\ call.op = "getHistoryPage"
       => LET res == ret.value
              inRange == Matching(call.vehicleId, call.sinceIso,
                                  call.untilIso)
          IN res.page >= 1
               => RowsIn(res.rows)
                    = {r \in Rows(inRange) :
                         /\ Cardinality(NewerThan(r, inRange))
                              >= (res.page - 1) * res.pageSize
                         /\ Cardinality(NewerThan(r, inRange))
                              < res.page * res.pageSize}

\* Over a history of more than 50 rows of the vehicle, an hour apart,
\* getHistory with a range that begins at the 12th hour and a limit of 2
\* has returned the rows of the 12th and the 13th hour.
TruncationDirectionWitness ==
  /\ call.op = "getHistory"
  /\ call.sinceIso = toISOString(HalfDay)
  /\ call.untilIso = NullText
  /\ call.limit = 2
  /\ Count(Matching(call.vehicleId, call.sinceIso, call.untilIso)) > 2
  /\ ret.value = <<HistoryRow(1, toISOString(HalfDay)),
                   HistoryRow(1, toISOString(HalfDay + MsPerHour))>>

\* C8.  deleteHistoryOlderThan(days) removes exactly the rows whose
\* timeIndicator is non-null and earlier than now minus days, and returns
\* how many it removed; for days zero, negative or not a number it returns 0
\* and leaves the history as it is.  Rows without timeIndicator and rows at
\* or after the cutoff stay.
DeleteRemovesOlder ==
  [][call'.op = "deleteHistoryOlderThan"
     => LET days == IF call'.days = NULL THEN 30 ELSE call'.days
            old(r) == /\ r.time_indicator # NullText
                      /\ InstantOf(r.time_indicator) < now - days * MsPerDay
        IN IF days = NaN \/ days <= 0
           THEN /\ ret'.value = 0
                /\ gps_vehicle_history' = gps_vehicle_history
           ELSE /\ gps_vehicle_history'
                     = Where(gps_vehicle_history,
                             {r \in Rows(gps_vehicle_history) : ~old(r)})
                /\ ret'.value = Count(gps_vehicle_history)
                                  - Count(gps_vehicle_history')
                /\ ~ret'.threw
    ]_vars

\* A deletion has removed a row, and kept a row at the cutoff and a row
\* without timeIndicator.
DeleteRemovesOlderWitness ==
  /\ call.op = "deleteHistoryOlderThan"
  /\ call.days = 1
  /\ ret.value = 2
  /\ \E r \in Rows(gps_vehicle_history) : r.time_indicator = NullText
  /\ \E r \in Rows(gps_vehicle_history) :
       /\ r.time_indicator # NullText
       /\ InstantOf(r.time_indicator) = now - MsPerDay

(***************************************************************************)
(* The daily counters: addDailyTimesToVehicles applied to vehicles of any  *)
(* counters over a history of any content                                  *)
(***************************************************************************)
\* Instants around the midnight of UTC+3 that precedes StartTime: the hour
\* before it, midnight itself, and the hour after.
DailyInstants ==
  {StartTime - turkeyOffset + k * MsPerHour : k \in {0 - 1, 0, 1}}

\* Drive, work, idle and stop counters of a row or a vehicle.  A counter
\* may be missing, and the tracker may send one below zero.
StoredCounters == {<<100, 80, NULL, 0>>, <<80, 100, 100, 80>>}

CurrentCounters == StoredCounters \cup {<<NULL, 0, 0 - 20, 100>>}

CountersRow(id, ti, c) == Record(Vehicle(id, NULL, ti, c[1], c[2], c[3], c[4]))

\* Histories that hold at most one row for a (vehicle, instant) key.
DailyTables ==
  LET keys == VehicleIds \X {toISOString(t) : t \in DailyInstants}
  IN {SetToBag({CountersRow(k[1], k[2], f[k]) : k \in stored}) :
        stored \in SUBSET keys, f \in [keys -> StoredCounters]}

DailyVehicles ==
  {Vehicle(id, NULL, NullText, c[1], c[2], c[3], c[4]) :
     id \in VehicleIds, c \in CurrentCounters}

AddDailyTimesToVehicles(batches) ==
  \E vehicles \in batches :
    /\ ret' = Returned(addDailyTimesToVehicles(vehicles))
    /\ call' = [op |-> "addDailyTimesToVehicles", vehicles |-> vehicles]
    /\ UNCHANGED <<now, dbVars, alertVars, clientVars>>

InitDaily ==
  /\ now \in Clocks
  /\ gps_vehicle_last = EmptyBag
  /\ gps_vehicle_history \in DailyTables
  /\ recentSpeedAlerts = << >>
  /\ maxSpeedTracker = << >>
  /\ sink = NoAlerts
  /\ observed = {}
  /\ tokenCache = EmptyTokenCache
  /\ job = NotStarted
  /\ call = [op |-> "none"]
  /\ ret = Returned(NULL)

AddDailyTimesOnce ==
  /\ call.op = "none"
  /\ AddDailyTimesToVehicles(SeqsUpTo(DailyVehicles, MaxBatch))

NextDaily == AddDailyTimesOnce

SpecDaily == InitDaily /\ [][NextDaily]_vars

\* The first row of today of a vehicle, by instants: today starts at the
\* last midnight of UTC+3 that is not after the clock.
TodayRows(id) ==
  {r \in Rows(gps_vehicle_history) :
     /\ r.vehicleid = id
     /\ r.time_indicator # NullText
     /\ \E d \in 0..(now \div MsPerDay + 1) :
          /\ d * MsPerDay - turkeyOffset <= now
          /\ now < (d + 1) * MsPerDay - turkeyOffset
          /\ InstantOf(r.time_indicator) >= d * MsPerDay - turkeyOffset}

Baseline(id) ==
  CHOOSE r \in TodayRows(id) :
    \A x \in TodayRows(id) :
      InstantOf(r.time_indicator) <= InstantOf(x.time_indicator)

\* The value of a counter, a missing one being zero.
Value(x) == IF x = NULL THEN 0 ELSE x

\* C10.  Daily deltas: for each vehicle and each of the four counters, daily
\* is max(0, current - todayStart) when the vehicle has a first row of
\* today, and is never negative then; it is the current value when the
\* vehicle has none.
DailyDeltas ==
  call.op = "addDailyTimesToVehicles"
  => /\ Len(ret.value) = Len(call.vehicles)
     /\ \A i \in 1..Len(call.vehicles) :
          LET v == call.vehicles[i]
              d == ret.value[i]
          IN IF TodayRows(v.vehicleid) # {}
             THEN LET start == Baseline(v.vehicleid)
                  IN /\ d.dailyDrivetime
                          = Max(0, Value(v.drivetime) - Value(start.drivetime))
                     /\ d.dailyWorktime
                          = Max(0, Value(v.worktime) - Value(start.worktime))
                     /\ d.dailyIdletime
                          = Max(0, Value(v.idletime) - Value(start.idletime))
                     /\ d.dailyStoptime
                          = Max(0, Value(v.stoptime) - Value(start.stoptime))
                     /\ d.dailyDrivetime >= 0
                     /\ d.dailyWorktime >= 0
                     /\ d.dailyIdletime >= 0
                     /\ d.dailyStoptime >= 0
             ELSE /\ d.dailyDrivetime = Value(v.drivetime)
                  /\ d.dailyWorktime = Value(v.worktime)
                  /\ d.dailyIdletime = Value(v.idletime)
                  /\ d.dailyStoptime = Value(v.stoptime)

\* A vehicle whose drive counter has fallen from 100 at the start of today
\* to 80 has a daily drive time of 0, next to a vehicle without a row of
\* today that keeps its current values.
DailyDeltasWitness ==
  /\ call.op = "addDailyTimesToVehicles"
  /\ Len(call.vehicles) = 2
  /\ TodayRows(call.vehicles[1].vehicleid) # {}
  /\ Baseline(call.vehicles[1].vehicleid).drivetime = 100
  /\ call.vehicles[1].drivetime = 80
  /\ ret.value[1].dailyDrivetime = 0
  /\ ret.value[1].dailyWorktime = 20
  /\ TodayRows(call.vehicles[2].vehicleid) = {}
  /\ ret.value[2].dailyStoptime = 100

(***************************************************************************)
(* The GPSBuddy client (src/src/services/gpsbuddyClient.js)                *)
(*                                                                         *)
(* A raw value of an upstream row is NULL (absent or null), a whole        *)
(* number (the number, or the text that spells it), NonNumeric (a text     *)
(* that spells no number, 'abc') or Blank (the text '').  The rows of an   *)
(* array are objects.                                                      *)
(***************************************************************************)
NonNumeric == NaN - 1
Blank == NaN - 2

\* Number(raw), as JavaScript converts a text or a number.
Number(raw) ==
  IF raw = NonNumeric THEN NaN
  ELSE IF raw = Blank \/ raw = NULL THEN 0
  ELSE raw

\* row.field != null ? Number(row.field) : null
NumberOrNull(raw) == IF raw # NULL THEN Number(raw) ELSE NULL

\* parseGpsBuddyDate: a raw time_indicator that is a number stands for the
\* text '/Date(ms)/' of that instant; no other text is a date.
parseGpsBuddyDate(value) ==
  IF value = NULL \/ value = Blank \/ value = NonNumeric THEN NullText
  ELSE toISOString(value)

\* velocityRaw == null || velocityRaw === '' ? null
\*   : Math.round(Number(velocityRaw)), and then
\* Number.isFinite(velocity) ? velocity : null
VelocityOrNull(velocityRaw) ==
  LET velocity == IF velocityRaw = NULL \/ velocityRaw = Blank THEN NULL
                  ELSE Number(velocityRaw)
  IN IF velocity # NULL /\ isFinite(velocity) THEN velocity ELSE NULL

\* The numeric fields and the telemetry time of the record normalizeVehicle
\* returns.
normalizeVehicle(row) ==
  [vehicleid |-> NumberOrNull(row.vehicleid),
   latitude |-> NumberOrNull(row.latitude),
   longitude |-> NumberOrNull(row.longitude),
   velocity |-> VelocityOrNull(row.velocity),
   direction |-> NumberOrNull(row.direction),
   time_indicator |-> parseGpsBuddyDate(row.time_indicator),
   drivetime |-> NumberOrNull(row.drivetime),
   worktime |-> NumberOrNull(row.worktime),
   idletime |-> NumberOrNull(row.idletime),
   stoptime |-> NumberOrNull(row.stoptime),
   totaldistance |-> NumberOrNull(row.totaldistance),
   start_km |-> NumberOrNull(row.start_km),
   flags |-> NumberOrNull(row.flags)]

\* A JavaScript number that is truthy: neither null, NaN nor 0.
Truthy(n) == n # NULL /\ n # NaN /\ n # 0

\* The top-level keys of a payload extractVehicleArray looks under, in its
\* order.
KnownKeys ==
  <<"help_ws_gpsb_unitvehicle_filter", "gpsb_unitvehicle_filter_by_group",
    "gpsb_unitvehicle_filter", "unitvehicle_filter", "data">>

\* A payload is what executeReturnSet resolves to: falsy (an empty body),
\* or an object: error tells whether it has a truthy error member, and
\* fields gives each other member it has: an array of rows, or (array
\* FALSE) a truthy value that is no array.
Payload(falsy, error, fields) ==
  [falsy |-> falsy, error |-> error, fields |-> fields]

ArrayOf(rows) == [array |-> TRUE, rows |-> rows]
NoArray == [array |-> FALSE, rows |-> << >>]

RECURSIVE FirstKnown(_, _)
FirstKnown(fields, i) ==
  IF i > Len(KnownKeys) THEN ArrayOf(<< >>)
  ELSE IF Has(fields, KnownKeys[i]) THEN fields[KnownKeys[i]]
  ELSE FirstKnown(fields, i + 1)

extractVehicleArray(payload) ==
  IF payload.falsy THEN ArrayOf(<< >>) ELSE FirstKnown(payload.fields, 1)

\* rows.map(normalizeVehicle)
RECURSIVE MapNormalize(_)
MapNormalize(rows) ==
  IF rows = << >> THEN << >>
  ELSE <<normalizeVehicle(Head(rows))>> \o MapNormalize(Tail(rows))

\* (Array.isArray(arr) ? arr : []).map(normalizeVehicle)
\*    .filter(v => v.vehicleid)
normalizedUnfiltered(arr) ==
  MapNormalize(IF arr.array THEN arr.rows ELSE << >>)

normalized(arr) ==
  SelectSeq(MapNormalize(IF arr.array THEN arr.rows ELSE << >>),
            LAMBDA v : Truthy(v.vehicleid))

\* ensureToken.  The server's part in one call is a script: its answers to
\* the InitializeSession requests of the call, in order; an answer is a
\* token (a positive number), NoTokenIn (a response tryExtractToken finds
\* no token in) or HttpError (httpGetJson throws).
TOKEN_TTL == Ms(20 * 60 * 1000)
TOKEN_MARGIN == Ms(60 * 1000)
maxAttempts == 3
NoTokenIn == 0
HttpError == NULL

\* One attempt of ensureToken, and those that follow it: the xml variant,
\* then the json variant when the first response holds no token.  i is the
\* number of requests issued so far.
RECURSIVE Attempts(_, _, _)
Attempts(script, attempt, i) ==
  LET next(n) == IF attempt < maxAttempts
                 THEN Attempts(script, attempt + 1, n)
                 ELSE [token |-> NULL, requests |-> n]
  IN IF script[i + 1] = HttpError THEN next(i + 1)
     ELSE IF script[i + 1] # NoTokenIn
       THEN [token |-> script[i + 1], requests |-> i + 1]
     ELSE IF script[i + 2] = HttpError THEN next(i + 2)
     ELSE IF script[i + 2] # NoTokenIn
       THEN [token |-> script[i + 2], requests |-> i + 2]
     ELSE next(i + 2)

\* tokenCache.token && tokenCache.expiresAt > now + 60 * 1000
CachedLax(cache, t) == cache.token # NULL /\ cache.expiresAt > t

Cached(cache, t) ==
  cache.token # NULL /\ cache.expiresAt > t + TOKEN_MARGIN

\* tokenCache.expiresAt = Date.now() + 20 * 60 * 1000, at the instant the
\* token has arrived.
Expiry(t, elapsed) == t + elapsed + TOKEN_TTL

\* ensureToken called at t: the token it returns, or that it threw; the
\* number of InitializeSession requests it issued; the cache it leaves.
\* elapsed is the time its requests have taken.
ensureToken(cache, t, script, elapsed) ==
  IF Cached(cache, t)
  THEN [threw |-> FALSE, token |-> cache.token, requests |-> 0,
        tokenCache |-> cache]
  ELSE LET a == Attempts(script, 1, 0)
       IN IF a.token = NULL
          THEN [threw |-> TRUE, token |-> NULL, requests |-> a.requests,
                tokenCache |-> cache]
          ELSE [threw |-> FALSE, token |-> a.token, requests |-> a.requests,
                tokenCache |-> [token |-> a.token,
                                expiresAt |-> Expiry(t, elapsed)]]

\* What the server does to one candidate of fetchLiveVehicles: its script
\* for ensureToken, the number of ExecuteReturnSet requests that fail before
\* one succeeds, and the payload of the one that does.
Behaviour(script, failures, payload) ==
  [script |-> script, failures |-> failures, payload |-> payload]

\* The error a candidate ends with: of the session, of the HTTP call, or
\* the error member of its payload.
ErrorOf(fn, kind) == [fn |-> fn, kind |-> kind]
NoError == ErrorOf("", "none")

\* executeReturnSet that drops the token when its requests have failed.
executeReturnSetForgetting(cache, t, b) ==
  LET tok == ensureToken(cache, t, b.script, 0)
  IN IF tok.threw
     THEN [threw |-> TRUE, kind |-> "session", tokenCache |-> tok.tokenCache,
           requests |-> tok.requests]
     ELSE IF b.failures >= maxAttempts
     THEN [threw |-> TRUE, kind |-> "http",
           tokenCache |-> [token |-> NULL, expiresAt |-> 0],
           requests |-> tok.requests + maxAttempts]
     ELSE [threw |-> FALSE, kind |-> "none", tokenCache |-> tok.tokenCache,
           requests |-> tok.requests + b.failures + 1]

\* executeReturnSet at t: ensureToken, then at most maxAttempts requests.
executeReturnSet(cache, t, b) ==
  LET tok == ensureToken(cache, t, b.script, 0)
  IN IF tok.threw
     THEN [threw |-> TRUE, kind |-> "session", tokenCache |-> tok.tokenCache,
           requests |-> tok.requests]
     ELSE IF b.failures >= maxAttempts
     THEN [threw |-> TRUE, kind |-> "http", tokenCache |-> tok.tokenCache,
           requests |-> tok.requests + maxAttempts]
     ELSE [threw |-> FALSE, kind |-> "none", tokenCache |-> tok.tokenCache,
           requests |-> tok.requests + b.failures + 1]

\* [env.liveEndpoint, 'gpsb_unitvehicle_filter', ...]
\*   .filter((v, idx, arr) => v && arr.indexOf(v) === idx)
\* An endpoint name that is not set is the empty text.
RECURSIVE FirstOccurrences(_, _)
FirstOccurrences(arr, idx) ==
  IF idx > Len(arr) THEN << >>
  ELSE (IF arr[idx] # "" /\ \A j \in 1..(idx - 1) : arr[j] # arr[idx]
        THEN <<arr[idx]>> ELSE << >>)
       \o FirstOccurrences(arr, idx + 1)

candidates(liveEndpoint) ==
  FirstOccurrences(<<liveEndpoint, "gpsb_unitvehicle_filter",
                     "gpsb_unitvehicle_filter_2",
                     "gpsb_unitvehicle_filter_by_group">>, 1)

\* The loop of fetchLiveVehicles from candidate i on: what it returns or
\* throws, the names it has tried, the requests it has issued and the token
\* cache it leaves.
RECURSIVE TryFrom(_, _, _, _, _, _, _)
TryFrom(cands, i, cache, t, run, lastError, requests) ==
  IF i > Len(cands)
  THEN [threw |-> TRUE, error |-> lastError, vehicles |-> << >>,
        functionName |-> "", attempts |-> cands, requests |-> requests,
        tokenCache |-> cache]
  ELSE LET r == executeReturnSet(cache, t, run[i])
           payload == run[i].payload
       IN IF r.threw
          THEN TryFrom(cands, i + 1, r.tokenCache, t, run,
                       ErrorOf(cands[i], r.kind), requests + r.requests)
          ELSE IF ~payload.falsy /\ payload.error
          THEN TryFrom(cands, i + 1, r.tokenCache, t, run,
                       ErrorOf(cands[i], "api"), requests + r.requests)
          ELSE [threw |-> FALSE, error |-> NoError,
                vehicles |-> normalized(extractVehicleArray(payload)),
                functionName |-> cands[i],
                attempts |-> SubSeq(cands, 1, i),
                requests |-> requests + r.requests,
                tokenCache |-> r.tokenCache]

fetchFirstOnly(liveEndpoint, cache, t, run) ==
  TryFrom(SubSeq(candidates(liveEndpoint), 1, 1), 1, cache, t, run,
          NoError, 0)

fetchLiveVehicles(liveEndpoint, cache, t, run) ==
  TryFrom(candidates(liveEndpoint), 1, cache, t, run, NoError, 0)

(***************************************************************************)
(* The requests and the waits of the client                                *)
(***************************************************************************)
\* What a call does, in its order: an HTTP request with the timeout axios
\* is given, or a sleep.  Timeouts and sleeps are in milliseconds.  outcome
\* tells what became of the request: "ok" for a response, "fail" for a
\* failure of the network or a status outside 2xx, "auth" for a response
\* with the authentication-error marker, "notoken" for a response of
\* InitializeSession that holds no token.
httpGetJson(target, timeout, attempt, outcome) ==
  [kind |-> "request", target |-> target, timeout |-> timeout,
   attempt |-> attempt, outcome |-> outcome]

Sleep(ms) == [kind |-> "sleep", ms |-> ms]

\* The error a failed attempt leaves in lastError.
AttemptError(target, attempt, outcome) ==
  [target |-> target, attempt |-> attempt, outcome |-> outcome]

NoAttemptError == AttemptError("", 0, "none")

\* sleep that waits 250 ms after every attempt.
backoffFlat(attempt) == <<Sleep(250)>>

\* if (attempt < maxAttempts) await sleep(250 * attempt)
backoff(attempt) ==
  IF attempt < maxAttempts THEN <<Sleep(250 * attempt)>> ELSE << >>

\* The loop condition that lets a fourth attempt in.
exhaustedLate(attempt) == attempt > maxAttempts + 1

\* for (let attempt = 1; attempt <= maxAttempts; attempt += 1), left
exhausted(attempt) == attempt > maxAttempts

\* The loop of ensureToken from one attempt on, as Attempts: the events of
\* the attempts and the error of the last.  i is the number of requests
\* issued so far.
RECURSIVE AttemptsLog(_, _, _, _)
AttemptsLog(script, attempt, i, log) ==
  LET session(outcome) == httpGetJson("InitializeSession", 10000, attempt, outcome)
      outcomeOf(x) == IF x = HttpError THEN "fail"
                      ELSE IF x = NoTokenIn THEN "notoken" ELSE "ok"
      first == session(outcomeOf(script[i + 1]))
      second == session(outcomeOf(script[i + 2]))
      next(n, events, outcome) ==
        IF attempt < maxAttempts
        THEN AttemptsLog(script, attempt + 1, n,
                         log \o events \o backoff(attempt))
        ELSE [log |-> log \o events \o backoff(attempt),
              lastError |-> AttemptError("InitializeSession", attempt, outcome)]
  IN IF script[i + 1] = HttpError THEN next(i + 1, <<first>>, "fail")
     ELSE IF script[i + 1] # NoTokenIn
       THEN [log |-> log \o <<first>>, lastError |-> NoAttemptError]
     ELSE IF script[i + 2] = HttpError
       THEN next(i + 2, <<first, second>>, "fail")
     ELSE IF script[i + 2] # NoTokenIn
       THEN [log |-> log \o <<first, second>>, lastError |-> NoAttemptError]
     ELSE next(i + 2, <<first, second>>, "notoken")

\* The events of ensureToken called at t, and the error it throws when it
\* does.
ensureTokenLog(cache, t, script) ==
  IF Cached(cache, t) THEN [log |-> << >>, lastError |-> NoAttemptError]
  ELSE AttemptsLog(script, 1, 0, << >>)

\* A loop of requests to target, each with the timeout: the first that
\* answers ends it, and answered is its attempt; a request that fails
\* leaves its error and is followed by a sleep.  outcomes[k] is what
\* becomes of request k.
RECURSIVE requestLoop(_, _, _, _, _, _)
requestLoop(target, timeout, outcomes, attempt, log, lastError) ==
  IF exhausted(attempt)
  THEN [threw |-> TRUE, log |-> log, lastError |-> lastError, answered |-> 0]
  ELSE LET outcome == IF attempt <= Len(outcomes) THEN outcomes[attempt]
                      ELSE "ok"
           request == httpGetJson(target, timeout, attempt, outcome)
       IN IF outcome = "fail"
          THEN requestLoop(target, timeout, outcomes, attempt + 1,
                           log \o <<request>> \o backoff(attempt),
                           AttemptError(target, attempt, outcome))
          ELSE [threw |-> FALSE, log |-> Append(log, request),
                lastError |-> lastError, answered |-> attempt]

\* The requests of executeReturnSet after a behaviour of the server: the
\* first b.failures of them fail.
FailFirst(failures) ==
  [k \in 1..maxAttempts |-> IF k <= failures THEN "fail" ELSE "ok"]

\* The events of executeReturnSet called at t, the attempt whose result
\* it returns, and the error it throws when it does: that of ensureToken,
\* or the lastError of its own loop.
executeReturnSetLog(cache, t, b) ==
  LET tok == ensureTokenLog(cache, t, b.script)
  IN IF ensureToken(cache, t, b.script, 0).threw
     THEN [log |-> tok.log, lastError |-> tok.lastError, answered |-> 0]
     ELSE LET r == requestLoop("ExecuteReturnSet", 20000,
                               FailFirst(b.failures), 1, tok.log,
                               NoAttemptError)
          IN [log |-> r.log, lastError |-> r.lastError,
              answered |-> r.answered]

\* The events of the loop of fetchLiveVehicles from candidate i on: the
\* log of the executeReturnSet of each candidate it tries.
RECURSIVE fetchLogs(_, _, _, _, _)
fetchLogs(cands, i, cache, t, run) ==
  IF i > Len(cands) THEN << >>
  ELSE LET r == executeReturnSet(cache, t, run[i])
           payload == run[i].payload
       IN <<executeReturnSetLog(cache, t, run[i]).log>>
          \o (IF r.threw \/ (~payload.falsy /\ payload.error)
              THEN fetchLogs(cands, i + 1, r.tokenCache, t, run)
              ELSE << >>)

\* result.error.code === 'MI001' || result.error.message?.includes('login')
\* that finds no marker.
isAuthErrorNever(outcome) == FALSE

isAuthError(outcome) == outcome = "auth"

\* Strategy 1 of callFunction: the requests with login and password.  A
\* response with the marker breaks the loop; any other response is the
\* result.
RECURSIVE directLoop(_, _, _, _)
directLoop(outcomes, attempt, log, lastError) ==
  IF exhausted(attempt)
  THEN [returned |-> FALSE, log |-> log, lastError |-> lastError]
  ELSE LET outcome == IF attempt <= Len(outcomes) THEN outcomes[attempt]
                      ELSE "ok"
           request == httpGetJson("direct", 15000, attempt, outcome)
       IN IF outcome = "fail"
          THEN directLoop(outcomes, attempt + 1,
                          log \o <<request>> \o backoff(attempt),
                          AttemptError("direct", attempt, "fail"))
          ELSE IF isAuthError(outcome)
          THEN [returned |-> FALSE, log |-> Append(log, request),
                lastError |-> lastError]
          ELSE [returned |-> TRUE, log |-> Append(log, request),
                lastError |-> lastError]

\* callFunction called at t: strategy 1, then, unless
\* options.skipTokenFallback, ensureToken and the requests with the token.
\* It returns the first response that ends a loop, or throws lastError: the
\* error of the last request that failed, of ensureToken when no request
\* has failed before, or 'GPSBuddy request failed' when nothing has.
callFunction(cache, t, direct, skipTokenFallback, script, withToken) ==
  LET d == directLoop(direct, 1, << >>, NoAttemptError)
      tok == ensureToken(cache, t, script, 0)
      tokLog == ensureTokenLog(cache, t, script)
  IN IF d.returned
     THEN [threw |-> FALSE, log |-> d.log, lastError |-> d.lastError,
           tokenCache |-> cache]
     ELSE IF skipTokenFallback
     THEN [threw |-> TRUE, log |-> d.log, lastError |-> d.lastError,
           tokenCache |-> cache]
     ELSE IF tok.threw
     THEN [threw |-> TRUE, log |-> d.log \o tokLog.log,
           lastError |-> IF d.lastError # NoAttemptError THEN d.lastError
                         ELSE tokLog.lastError,
           tokenCache |-> tok.tokenCache]
     ELSE LET r == requestLoop("token", 10000, withToken, 1,
                               d.log \o tokLog.log, d.lastError)
          IN [threw |-> r.threw, log |-> r.log, lastError |-> r.lastError,
              tokenCache |-> tok.tokenCache]

\* The response of InitializeSession as summarizeInitializeSessionResponse
\* sees it: null, a text of some length once its white space is collapsed
\* and trimmed, an object whose keys have the lengths given, or a number
\* or a boolean that String() writes with some length.
NullData == [type |-> "null", length |-> 0, keys |-> << >>]
TextData(n) == [type |-> "string", length |-> n, keys |-> << >>]
ObjectData(keys) == [type |-> "object", length |-> 0, keys |-> keys]
OtherData(n) == [type |-> "other", length |-> n, keys |-> << >>]

RECURSIVE SumLen(_, _)
SumLen(keys, k) == IF k = 0 THEN 0 ELSE keys[k] + SumLen(keys, k - 1)

\* keys.slice(0, 12).join(', ').length
JoinedLength(keys) ==
  LET n == Min(Len(keys), 12)
  IN SumLen(keys, n) + (IF n > 0 THEN 2 * (n - 1) ELSE 0)

\* The length of summarizeInitializeSessionResponse(data): 'null'; the
\* text, or its first 240 characters and an ellipsis; 'object keys=['
\* with the first 12 keys, ', ...' when there are more, and ']';
\* String(data).
summaryLength(data) ==
  IF data.type = "null" THEN 4
  ELSE IF data.type = "string"
  THEN IF data.length > 240 THEN 240 + 1 ELSE data.length
  ELSE IF data.type = "other" THEN data.length
  ELSE 13 + JoinedLength(data.keys)
       + (IF Len(data.keys) > 12 THEN 3 ELSE 0) + 1

(***************************************************************************)
(* The client as a state machine                                           *)
(***************************************************************************)
Raised(e) == [threw |-> TRUE, value |-> NULL, error |-> e]

\* Time passes: the clock moves on to a later instant.  Nothing is handed
\* to the sink meanwhile.
Tick(instants) ==
  \E t \in instants :
    /\ t > now
    /\ now' = t
    /\ sink' = [sink EXCEPT !.batch = << >>]
    /\ call' = [op |-> "tick"]
    /\ ret' = Returned(NULL)
    /\ UNCHANGED <<dbVars, recentSpeedAlerts, maxSpeedTracker, observed,
                   clientVars>>

NormalizeVehicle(rows) ==
  \E row \in rows :
    /\ call' = [op |-> "normalizeVehicle", row |-> row]
    /\ ret' = Returned(normalizeVehicle(row))
    /\ UNCHANGED <<now, dbVars, alertVars, clientVars>>

\* A call of fetchLiveVehicles(env) at the clock's instant; call.run keeps
\* what the server did to the candidates the call has tried, call.cache the
\* token cache the call found, call.logs the requests and the sleeps of each
\* candidate.
FetchLiveVehicles(endpoints, runs) ==
  \E liveEndpoint \in endpoints, run \in runs :
    \E r \in {fetchLiveVehicles(liveEndpoint, tokenCache, now, run)} :
      /\ tokenCache' = r.tokenCache
      /\ call' = [op |-> "fetchLiveVehicles", liveEndpoint |-> liveEndpoint,
                   cache |-> tokenCache, attempts |-> r.attempts,
                   run |-> SubSeq(run, 1, Len(r.attempts)),
                   requests |-> r.requests,
                   logs |-> fetchLogs(candidates(liveEndpoint), 1,
                                      tokenCache, now, run)]
      /\ ret' = IF r.threw THEN Raised(r.error)
                ELSE Returned([vehicles |-> r.vehicles,
                               meta |-> [functionName |-> r.functionName,
                                         fetchedAt |-> toISOString(now)]])
      /\ UNCHANGED <<now, dbVars, alertVars, job>>

\* The raw rows: every field absent, but for the vehicleid.
NoFields ==
  [vehicleid |-> NULL, latitude |-> NULL, longitude |-> NULL,
   velocity |-> NULL, direction |-> NULL, time_indicator |-> NULL,
   drivetime |-> NULL, worktime |-> NULL, idletime |-> NULL,
   stoptime |-> NULL, totaldistance |-> NULL, start_km |-> NULL,
   flags |-> NULL]

RawRow(id) == [NoFields EXCEPT !.vehicleid = id]

NumericFields ==
  {"vehicleid", "latitude", "longitude", "velocity", "direction",
   "drivetime", "worktime", "idletime", "stoptime", "totaldistance",
   "start_km", "flags"}

RawValues == {NULL, 0, 7, NonNumeric, Blank}

\* The rows SpecFetch normalizes: vehicle 1, with one or two fields set.
NormalizeRows ==
  {[[RawRow(1) EXCEPT ![f] = x] EXCEPT ![g] = y] :
     f \in NumericFields \cup {"time_indicator"}, x \in RawValues,
     g \in {"velocity", "drivetime"}, y \in {NULL, 7}}

\* The rows of a payload: a vehicle, or a row whose id is absent, zero, no
\* number or blank.
MaxRows == 2
FetchRows == {RawRow(id) : id \in VehicleIds \cup {NULL, 0, NonNumeric, Blank}}

SessionUp == [i \in 1..(2 * maxAttempts) |-> 1]
SessionDown == [i \in 1..(2 * maxAttempts) |-> HttpError]

EmptyPayload == Payload(TRUE, FALSE, << >>)
ErrorPayload == Payload(FALSE, TRUE, << >>)
Under(key, value) == Payload(FALSE, FALSE, Set(<< >>, key, value))

\* The candidates that fail: no session, no HTTP response, an API error.
Failing ==
  {Behaviour(SessionDown, 0, EmptyPayload),
   Behaviour(SessionUp, maxAttempts, EmptyPayload),
   Behaviour(SessionUp, 0, ErrorPayload)}

\* A few more: an empty body, an object without a known key, a value that
\* is no array, one vehicle.
Poor ==
  Failing
  \cup {Behaviour(SessionUp, 0, p) :
          p \in {EmptyPayload,
                 Under("rows", ArrayOf(<<RawRow(1)>>)),
                 Under("data", NoArray),
                 Under("data", ArrayOf(<<RawRow(2)>>))}}

\* And the arrays of rows, under the first and, or, the third known key,
\* after a request that failed or none.
Rich ==
  {Behaviour(SessionUp, n, p) :
     n \in {0, 1},
     p \in {Under(KnownKeys[1], ArrayOf(rows)) :
              rows \in SeqsUpTo(FetchRows, MaxRows)}
           \cup {Payload(FALSE, FALSE,
                         Set(Set(<< >>, KnownKeys[3], ArrayOf(rows)),
                             KnownKeys[5], ArrayOf(<<RawRow(1)>>))) :
                   rows \in SeqsUpTo(FetchRows, 1)}}

\* What the server does to the four candidates: poor all along, or rich
\* once, to the first candidate or the second, and failing otherwise.
FetchRuns ==
  [1..4 -> Poor]
  \cup {[i \in 1..4 |-> IF i = k THEN r ELSE p] :
          k \in 1..2, r \in Rich, p \in Failing}

\* env.liveEndpoint: not set, one of the alternates, a name of its own.
LiveEndpoints == {"", "gpsb_unitvehicle_filter_2", "help_ws_gpsb_unitvehicle_filter"}

\* The client is called once, with its token cache empty or holding a
\* token of an earlier call.
InitFetch ==
  /\ now = StartTime
  /\ gps_vehicle_last = EmptyBag
  /\ gps_vehicle_history = EmptyBag
  /\ recentSpeedAlerts = << >>
  /\ maxSpeedTracker = << >>
  /\ sink = NoAlerts
  /\ observed = {}
  /\ tokenCache \in {EmptyTokenCache,
                     [token |-> 2, expiresAt |-> StartTime + TOKEN_TTL]}
  /\ job = NotStarted
  /\ call = [op |-> "none"]
  /\ ret = Returned(NULL)

NormalizeOnce == call.op = "none" /\ NormalizeVehicle(NormalizeRows)

FetchOnce == call.op = "none" /\ FetchLiveVehicles(LiveEndpoints, FetchRuns)

NextFetch == NormalizeOnce \/ FetchOnce

SpecFetch == InitFetch /\ [][NextFetch]_vars

(***************************************************************************)
(* Claims about fetchLiveVehicles and normalizeVehicle, under SpecFetch    *)
(***************************************************************************)
Alternates ==
  <<"gpsb_unitvehicle_filter", "gpsb_unitvehicle_filter_2",
    "gpsb_unitvehicle_filter_by_group">>

\* The configured name, when one is set, and then the alternates that are
\* not that name.
InOrder(liveEndpoint) ==
  IF liveEndpoint = "" THEN Alternates
  ELSE <<liveEndpoint>> \o SelectSeq(Alternates, LAMBDA fn : fn # liveEndpoint)

IsPrefix(s, t) == Len(s) <= Len(t) /\ s = SubSeq(t, 1, Len(s))

\* The call has a session for its i-th candidate: the cache it found held
\* a token, or the server has issued one to this candidate or an earlier.
HasSession(i) ==
  \/ call.cache.token # NULL
  \/ \E j \in 1..i : call.run[j].script # SessionDown

HttpSucceeded(i) == HasSession(i) /\ call.run[i].failures < maxAttempts

NoApiError(i) == ~call.run[i].payload.error

\* The payload has an array under one of the known top-level keys.
Recognizable(payload) ==
  /\ ~payload.falsy
  /\ \E k \in 1..Len(KnownKeys) :
       Has(payload.fields, KnownKeys[k]) /\ payload.fields[KnownKeys[k]].array

Tried == 1..Len(call.attempts)

\* C11 as stated.  fetchLiveVehicles tries the configured name and then the
\* alternates, in their order and each once; a candidate succeeds when its
\* HTTP call succeeded, its payload has no error object and has a vehicle
\* array under a known key; the call stops at the first candidate that
\* succeeds, and goes on to the next after one that does not.
FetchStopsAtFirstSuccess ==
  call.op = "fetchLiveVehicles"
    => LET Succeeded(i) ==
             HttpSucceeded(i) /\ NoApiError(i)
               /\ Recognizable(call.run[i].payload)
       IN /\ IsPrefix(call.attempts, InOrder(call.liveEndpoint))
          /\ \A i \in Tried : i < Len(call.attempts) => ~Succeeded(i)
          /\ IF ret.threw
             THEN /\ call.attempts = InOrder(call.liveEndpoint)
                  /\ \A i \in Tried : ~Succeeded(i)
             ELSE Succeeded(Len(call.attempts))

\* The candidate has failed: no HTTP response, or an API error.
Failed(i) == ~HttpSucceeded(i) \/ ~NoApiError(i)

\* The error of the candidate, by what has made it fail.
ErrorAt(i) ==
  ErrorOf(call.attempts[i],
          IF ~HasSession(i) THEN "session"
          ELSE IF call.run[i].failures >= maxAttempts THEN "http"
          ELSE "api")

\* C12.  fetchLiveVehicles throws only when it has tried every candidate
\* and every one has failed, and what it throws is the error of the last;
\* when it returns, the candidates before the last it tried have failed,
\* the last has not, and meta.functionName is the name of that candidate.
FetchFailsAfterAll ==
  call.op = "fetchLiveVehicles"
    => LET last == Len(call.attempts)
       IN /\ last >= 1
          /\ IF ret.threw
             THEN /\ call.attempts = InOrder(call.liveEndpoint)
                  /\ \A i \in Tried : Failed(i)
                  /\ ret.error = ErrorAt(last)
             ELSE /\ \A i \in Tried : Failed(i) <=> i < last
                  /\ ret.value.meta.functionName = call.attempts[last]
                  /\ IsPrefix(call.attempts, InOrder(call.liveEndpoint))

\* The configured name and the first alternate have failed, the one without
\* a session and the other with an API error; the second alternate has
\* answered, and the call has returned under its name.  Or all four have
\* failed, and the call has thrown the HTTP error of the last.
FetchFailsAfterAllWitness ==
  /\ call.op = "fetchLiveVehicles"
  /\ call.liveEndpoint = "help_ws_gpsb_unitvehicle_filter"
  /\ call.cache = EmptyTokenCache
  /\ Len(call.attempts) = 4
  /\ call.run[1].script = SessionDown
  /\ call.run[2].payload.error
  /\ ret.threw
  /\ ret.error = ErrorOf("gpsb_unitvehicle_filter_by_group", "http")

\* A vehicleId is usable when it is a number other than zero.
Usable(raw) == raw \notin {NULL, NonNumeric, Blank, 0}

\* The rows of the payload the call has returned from.
ReturnedRows ==
  LET arr == extractVehicleArray(call.run[Len(call.attempts)].payload)
  IN IF arr.array THEN arr.rows ELSE << >>

\* C13.  Every record fetchLiveVehicles returns has a usable vehicleId:
\* the records are those of the payload's rows that have one, in the order
\* of the rows, and a row without a vehicleid is none of them.
FetchDropsUnidentified ==
  (call.op = "fetchLiveVehicles" /\ ~ret.threw)
    => LET kept == SelectSeq(ReturnedRows, LAMBDA row : Usable(row.vehicleid))
           vehicles == ret.value.vehicles
       IN /\ \A i \in 1..Len(vehicles) : vehicles[i].vehicleid \in VehicleIds
          /\ Len(vehicles) = Len(kept)
          /\ \A i \in 1..Len(kept) :
               vehicles[i].vehicleid = kept[i].vehicleid

\* The payload's rows are one without a vehicleid and then vehicle 2, or
\* vehicle 2 and then vehicle 1: the call has returned vehicle 2 alone, or
\* both in that order.
FetchDropsUnidentifiedWitness ==
  /\ call.op = "fetchLiveVehicles"
  /\ ~ret.threw
  /\ Len(ReturnedRows) = 2
  /\ ReturnedRows[1].vehicleid = NULL
  /\ ReturnedRows[2].vehicleid = 2
  /\ Len(ret.value.vehicles) = 1
  /\ ret.value.vehicles[1].vehicleid = 2

\* C14 as stated.  normalizeVehicle turns into null every numeric field
\* whose raw value is absent, null, or present and not numeric: never into
\* zero or a not-a-number value.
NormalizeDefensive ==
  call.op = "normalizeVehicle"
    => \A f \in NumericFields :
         call.row[f] \in {NULL, NonNumeric, Blank} => ret.value[f] = NULL

(***************************************************************************)
(* The token cache as the clock runs                                       *)
(***************************************************************************)
\* A call of ensureToken(env) at the clock's instant.  The requests of a
\* call that issues some take the time elapsed; call.at and call.cache keep
\* the instant of the call and the cache it found, call.log its requests and
\* its sleeps.
EnsureToken(scripts, delays, instants) ==
  \E script \in scripts, elapsed \in delays :
    \E r \in {ensureToken(tokenCache, now, script, elapsed)} :
      /\ r.requests = 0 => elapsed = 0
      /\ now + elapsed \in instants
      /\ now' = now + elapsed
      /\ tokenCache' = r.tokenCache
      /\ call' = [op |-> "ensureToken", at |-> now, cache |-> tokenCache,
                   requests |-> r.requests,
                   log |-> ensureTokenLog(tokenCache, now, script).log]
      /\ ret' = IF r.threw THEN Raised(ErrorOf("InitializeSession", "session"))
                ELSE Returned(r.token)
      /\ UNCHANGED <<dbVars, alertVars, job>>

\* The server issues token 1 or token 2 at once, or after a response
\* without a token, or after a request that failed; or it issues none.
TokenScripts ==
  {SessionUp, SessionDown,
   [i \in 1..(2 * maxAttempts) |-> 2],
   [i \in 1..(2 * maxAttempts) |-> IF i = 1 THEN NoTokenIn ELSE 2],
   [i \in 1..(2 * maxAttempts) |-> IF i = 1 THEN HttpError ELSE 1],
   [i \in 1..(2 * maxAttempts) |-> NoTokenIn]}

MaxElapsed == 1       \* the seconds the requests of a call may take

\* The instants of the calls: the start and the seconds around the 19th
\* minute after it, when a token of the start has a minute to live.
TokenClocks ==
  {StartTime + d : d \in 0..MaxElapsed}
  \cup {StartTime + TOKEN_TTL - TOKEN_MARGIN + d :
          d \in (0 - 1)..(MaxElapsed + 1)}

EnsureTokenCalls == EnsureToken(TokenScripts, 0..MaxElapsed, TokenClocks)

TokenTick == Tick(TokenClocks)

InitToken == Idle

NextToken == EnsureTokenCalls \/ TokenTick

SpecToken == InitToken /\ [][NextToken]_vars

\* The time the token of the cache had to live when the call was made.
Remaining == call.cache.expiresAt - call.at

\* C15.  A token ensureToken obtains is cached with an expiry 20 minutes
\* after the instant it was obtained at; a call that finds a token with
\* more than 60 seconds to live returns that token and issues no
\* InitializeSession request; a call that finds one with less than 60
\* seconds to live issues a request.
TokenCacheLifetime ==
  call.op = "ensureToken"
    => /\ (call.requests > 0 /\ ~ret.threw)
            => tokenCache = [token |-> ret.value,
                             expiresAt |-> now + 20 * MsPerMinute]
       /\ (call.cache.token # NULL /\ Remaining > 60)
            => /\ call.requests = 0
               /\ ret = Returned(call.cache.token)
               /\ tokenCache = call.cache
       /\ (call.cache.token # NULL /\ Remaining < 60)
            => call.requests >= 1

\* Token 1 had 59 seconds to live: the call has issued two requests, the
\* second of which has brought token 2, cached for 20 minutes from now.
TokenCacheLifetimeWitness ==
  /\ call.op = "ensureToken"
  /\ call.cache.token = 1
  /\ Remaining = 59
  /\ call.requests = 2
  /\ ret = Returned(2)
  /\ now = call.at + 1
  /\ tokenCache = [token |-> 2, expiresAt |-> now + 20 * MsPerMinute]

(***************************************************************************)
(* The refresh job: refreshOnce, checkSpeedOnly and the clock              *)
(***************************************************************************)
MaxWindows == 2       \* cooldown windows the clock of the alerts runs over

\* process.env, of which the model keeps the three credentials and the
\* flag of the job.  A variable that is not set is the empty text, and so
\* is what String.prototype.trim leaves of a blank one.
Env(companyId, username, password, enabled) ==
  [GPSBUDDY_COMPANY_ID |-> companyId, GPSBUDDY_USERNAME |-> username,
   GPSBUDDY_PASSWORD |-> password, GPS_REFRESH_CRON_ENABLED |-> enabled]

trim(v) == IF v = " " THEN "" ELSE v

\* requireEnv: the value, or null (here the empty text) when the variable
\* is not set or blank.
requireEnvUntrimmed(env, name) == env[name]

requireEnv(env, name) == IF trim(env[name]) = "" THEN "" ELSE env[name]

parseBooleanEnv(env, name, defaultValue) ==
  IF trim(env[name]) = "" THEN defaultValue
  ELSE IF env[name] \in {"1", "true", "yes", "on"} THEN TRUE
  ELSE IF env[name] \in {"0", "false", "no", "off"} THEN FALSE
  ELSE defaultValue

required == <<"GPSBUDDY_COMPANY_ID", "GPSBUDDY_USERNAME", "GPSBUDDY_PASSWORD">>

\* validateEnv({requireGps}): the configuration, or the error ENV_MISSING
\* with the keys that are missing.
validateEnv(env, requireGps) ==
  LET hasGpsCreds == \A i \in 1..Len(required) : requireEnv(env, required[i]) # ""
      cronEnabled ==
        IF trim(env.GPS_REFRESH_CRON_ENABLED) = "" THEN hasGpsCreds
        ELSE parseBooleanEnv(env, "GPS_REFRESH_CRON_ENABLED", FALSE)
      missing == SelectSeq(required, LAMBDA k : requireEnv(env, k) = "")
  IN IF (requireGps \/ cronEnabled) /\ missing # << >>
     THEN [threw |-> TRUE, gpsRefreshEnabled |-> cronEnabled,
           error |-> [code |-> "ENV_MISSING", missing |-> missing]]
     ELSE [threw |-> FALSE, gpsRefreshEnabled |-> cronEnabled,
           error |-> [code |-> "", missing |-> << >>]]

\* What a call of fetchLiveVehicles at the clock's instant hands over: a
\* batch of normalized vehicles, or an error; the token cache it leaves;
\* the number of the requests it has issued at the least.  The call needs
\* a session: the token of the cache, or one ensureToken acquires when the
\* server's script has one; with a session its candidates may still fail.
Fetched(scripts, batches) ==
  UNION {
    LET tok == ensureToken(tokenCache, now, script, 0)
    IN IF tok.threw
       THEN {[ok |-> FALSE, vehicles |-> << >>,
              tokenCache |-> tok.tokenCache, requests |-> tok.requests]}
       ELSE {[ok |-> TRUE, vehicles |-> b, tokenCache |-> tok.tokenCache,
              requests |-> tok.requests + 1] : b \in batches}
            \cup {[ok |-> FALSE, vehicles |-> << >>,
                   tokenCache |-> tok.tokenCache,
                   requests |-> tok.requests + 1]}
    : script \in scripts}

\* The sink after a call of checkSpeedViolations at the clock's instant:
\* sink.received and sink.missed keep vehicle and instant of every alert
\* that reached the sink, or found none; sink.batch is what the latest poll
\* delivered.
Deliver(c) ==
  [received |-> sink.received
                  \cup {[vehicleId |-> c.sent[i].vehicleId, at |-> now] :
                          i \in 1..Len(c.sent)},
   missed |-> sink.missed \cup {[vehicleId |-> id, at |-> now] : id \in c.missed},
   batch |-> c.sent]

\* The steps a call of refreshOnce takes after validateEnv, in their order:
\* a step that fails is the last.
refreshStepsCheckFirst(fetched, persisted) ==
  IF ~fetched THEN <<"fetch">> ELSE <<"fetch", "check", "persist">>

refreshSteps(fetched, persisted) ==
  IF ~fetched THEN <<"fetch">>
  ELSE IF ~persisted THEN <<"fetch", "persist">>
  ELSE <<"fetch", "persist", "check">>

\* And those of checkSpeedOnly.
checkSteps(fetched) ==
  IF ~fetched THEN <<"fetch">> ELSE <<"fetch", "check">>

Took(steps, step) == \E i \in 1..Len(steps) : steps[i] = step

\* The record of a poll: its environment, the steps it has taken, the
\* requests it has issued, whether its fetch and its persistence have
\* succeeded, the vehicles over the limit that it has checked, and whether
\* the check has found the sink.
Poll(op, env, steps, requests, fetched, persisted, vehicles, sinkUp) ==
  [op |-> op, env |-> env, steps |-> steps, requests |-> requests,
   fetched |-> fetched, persisted |-> persisted,
   speeders |-> speeders(vehicles), sinkUp |-> sinkUp]

\* refreshOnce: validateEnv, fetch, persist, check the speeds, return
\* {meta, persisted}.  A missing credential, a failing fetch or a failing
\* statement ends the call with its error.
RefreshOnce(envs, scripts, batches) ==
  \E env \in envs :
    \E cfg \in {validateEnv(env, TRUE)} :
      IF cfg.threw
      THEN /\ call' = Poll("refreshOnce", env, << >>, 0, FALSE, FALSE, << >>,
                           TRUE)
           /\ ret' = Raised(cfg.error)
           /\ sink' = [sink EXCEPT !.batch = << >>]
           /\ UNCHANGED <<now, dbVars, recentSpeedAlerts, maxSpeedTracker,
                          tokenCache>>
      ELSE
        \E f \in Fetched(scripts, batches), failAt \in 0..MaxBatch,
           fail \in {"last", "history"}, sinkUp \in BOOLEAN :
          /\ failAt <= Len(f.vehicles)
          /\ failAt = 0 => fail = "last"
          /\ \E r \in {upsertLastAndHistory(f.vehicles, failAt, fail)} :
             \E steps \in {refreshSteps(f.ok, ~r.threw)} :
             \E c \in {checkSpeedViolations(f.vehicles, sinkUp)} :
               /\ Took(steps, "check") \/ sinkUp
               /\ tokenCache' = f.tokenCache
               /\ IF Took(steps, "persist") /\ ~r.threw
                  THEN /\ gps_vehicle_last' = r.last
                       /\ gps_vehicle_history' = r.history
                  ELSE UNCHANGED dbVars
               /\ IF Took(steps, "check")
                  THEN /\ recentSpeedAlerts' = c.recentSpeedAlerts
                       /\ maxSpeedTracker' = c.maxSpeedTracker
                       /\ sink' = Deliver(c)
                  ELSE /\ sink' = [sink EXCEPT !.batch = << >>]
                       /\ UNCHANGED <<recentSpeedAlerts, maxSpeedTracker>>
               /\ call' = Poll("refreshOnce", env, steps, f.requests, f.ok,
                               f.ok /\ ~r.threw,
                               IF Took(steps, "check") THEN f.vehicles
                               ELSE << >>,
                               sinkUp)
               /\ ret' = IF ~f.ok
                         THEN Raised(ErrorOf("fetchLiveVehicles", "fetch"))
                         ELSE IF r.threw
                         THEN Raised(ErrorOf("upsertLastAndHistory", "persist"))
                         ELSE Returned([persisted |-> r.value])
          /\ UNCHANGED now

\* checkSpeedOnly, had it stored the batch it has fetched.
CheckSpeedPersisting(envs, scripts, batches) ==
  \E env \in envs, f \in Fetched(scripts, batches), sinkUp \in BOOLEAN :
    /\ ~validateEnv(env, TRUE).threw
    /\ f.ok
    /\ \E r \in {upsertLastAndHistory(f.vehicles, 0, "last")} :
       \E c \in {checkSpeedViolations(f.vehicles, sinkUp)} :
         /\ tokenCache' = f.tokenCache
         /\ gps_vehicle_last' = r.last
         /\ gps_vehicle_history' = r.history
         /\ recentSpeedAlerts' = c.recentSpeedAlerts
         /\ maxSpeedTracker' = c.maxSpeedTracker
         /\ sink' = Deliver(c)
         /\ call' = Poll("checkSpeedOnly", env, checkSteps(TRUE), f.requests,
                         TRUE, FALSE, f.vehicles, sinkUp)
         /\ ret' = Returned(Len(f.vehicles))
    /\ UNCHANGED now

\* checkSpeedOnly: validateEnv, fetch, check the speeds, return the number
\* of vehicles.
CheckSpeedOnly(envs, scripts, batches) ==
  \E env \in envs :
    \E cfg \in {validateEnv(env, TRUE)} :
      IF cfg.threw
      THEN /\ call' = Poll("checkSpeedOnly", env, << >>, 0, FALSE, FALSE,
                           << >>, TRUE)
           /\ ret' = Raised(cfg.error)
           /\ sink' = [sink EXCEPT !.batch = << >>]
           /\ UNCHANGED <<now, dbVars, recentSpeedAlerts, maxSpeedTracker,
                          tokenCache>>
      ELSE
        \E f \in Fetched(scripts, batches), sinkUp \in BOOLEAN :
          /\ ~f.ok => sinkUp
          /\ tokenCache' = f.tokenCache
          /\ IF ~f.ok
             THEN /\ call' = Poll("checkSpeedOnly", env, checkSteps(FALSE),
                                  f.requests, FALSE, FALSE, << >>, TRUE)
                  /\ ret' = Raised(ErrorOf("fetchLiveVehicles", "fetch"))
                  /\ sink' = [sink EXCEPT !.batch = << >>]
                  /\ UNCHANGED <<recentSpeedAlerts, maxSpeedTracker>>
             ELSE \E c \in {checkSpeedViolations(f.vehicles, sinkUp)} :
                    /\ recentSpeedAlerts' = c.recentSpeedAlerts
                    /\ maxSpeedTracker' = c.maxSpeedTracker
                    /\ sink' = Deliver(c)
                    /\ call' = Poll("checkSpeedOnly", env, checkSteps(TRUE),
                                    f.requests, TRUE, FALSE, f.vehicles,
                                    sinkUp)
                    /\ ret' = Returned(Len(f.vehicles))
          /\ UNCHANGED <<now, dbVars>>

\* The environment with its credentials, and the scripts of a server that
\* issues a token at once or none.
Configured == Env("7", "user", "secret", "")
JobScripts == {SessionUp, SessionDown}

\* The instants of the polls: StartTime, and the minute after the start of
\* each cooldown window that follows.  Two of them lie one minute, one
\* cooldown, or one or two cooldowns and a minute apart.
AlertClocks ==
  {StartTime}
  \cup {StartTime + k * SPEED_ALERT_COOLDOWN + MsPerMinute :
          k \in 0..MaxWindows}

\* The fleet of SpecAlert: a vehicle without velocity, or over the limit;
\* none carries a telemetry time.
AlertVehicles ==
  {Vehicle(id, vel, NullText, NULL, NULL, NULL, NULL) :
     id \in VehicleIds, vel \in {NULL, 100}}

\* The process starts over the store an earlier run has left: the last
\* state of every vehicle of the fleet, and empty alert tables.
InitAlert ==
  /\ now = StartTime
  /\ gps_vehicle_last = SetToBag({Record(OnlyId(id)) : id \in VehicleIds})
  /\ gps_vehicle_history = EmptyBag
  /\ recentSpeedAlerts = << >>
  /\ maxSpeedTracker = << >>
  /\ sink = NoAlerts
  /\ observed = {}
  /\ tokenCache = EmptyTokenCache
  /\ job = NotStarted
  /\ call = [op |-> "none"]
  /\ ret = Returned(NULL)

RefreshAlerts ==
  /\ RefreshOnce({Configured}, JobScripts, SeqsUpTo(AlertVehicles, 1))
  /\ UNCHANGED <<job, observed>>

CheckAlerts ==
  /\ CheckSpeedOnly({Configured}, JobScripts, SeqsUpTo(AlertVehicles, MaxBatch))
  /\ UNCHANGED <<job, observed>>

AlertTick == Tick(AlertClocks)

NextAlert == RefreshAlerts \/ CheckAlerts \/ AlertTick

SpecAlert == InitAlert /\ [][NextAlert]_vars

(***************************************************************************)
(* Claims about the speed alerts, under SpecAlert                          *)
(***************************************************************************)
FiveMinutes == 5 * MsPerMinute

\* The step is a poll whose speed check has run.
Polled == call'.op \in {"refreshOnce", "checkSpeedOnly"} /\ ~ret'.threw

\* The alerts for a vehicle among those the poll has delivered.
AlertsFor(id, batch) == {i \in 1..Len(batch) : batch[i].vehicleId = id}

OverLimit(id, poll) == \E i \in 1..Len(poll.speeders) : poll.speeders[i] = id

\* No entry of the log is of the vehicle and five minutes old or younger.
NoneWithin(log, id) ==
  \A a \in log : a.vehicleId = id => now - a.at > FiveMinutes

\* C1.  Speed-alert debounce: an alert a poll sends for a vehicle comes
\* more than 5 minutes after every alert the sink has received for that
\* vehicle, and the poll sends no second alert for it; so no two alerts of
\* one vehicle are 5 minutes or less apart.
SpeedAlertDebounce ==
  [][Polled
     => \A id \in VehicleIds :
          AlertsFor(id, sink'.batch) # {}
            => /\ NoneWithin(sink.received, id)
               /\ Cardinality(AlertsFor(id, sink'.batch)) = 1
    ]_vars

\* A vehicle over the limit has been polled one cooldown, to the second,
\* after its alert, and the poll has sent nothing.
SpeedAlertDebounceWitness ==
  /\ call.op \in {"refreshOnce", "checkSpeedOnly"}
  /\ ~ret.threw
  /\ call.sinkUp
  /\ \E id \in VehicleIds :
       /\ OverLimit(id, call)
       /\ [vehicleId |-> id, at |-> now - FiveMinutes] \in sink.received
       /\ sink.batch = << >>

\* The vehicle is over the limit in the poll and out of cooldown: it has no
\* debounce entry, or one more than 5 minutes old.
Due(id, poll) ==
  /\ OverLimit(id, poll)
  /\ \/ ~Has(recentSpeedAlerts, id)
     \/ now - recentSpeedAlerts[id] > FiveMinutes

\* C35.  The debounce entry is recorded whether or not the alert is
\* delivered: a poll in which a vehicle is over the limit and out of
\* cooldown sets recentSpeedAlerts[vehicleId] to the current time; when the
\* sink is unavailable it delivers no alert for the vehicle, and the polls
\* of the 5 minutes that follow deliver none either.
DebounceRecorded ==
  [][Polled
     => \A id \in VehicleIds :
          /\ Due(id, call')
               => /\ Has(recentSpeedAlerts', id)
                  /\ recentSpeedAlerts'[id] = now'
          /\ (Due(id, call') /\ ~call'.sinkUp)
               => AlertsFor(id, sink'.batch) = {}
          /\ (\E a \in sink.missed :
                a.vehicleId = id /\ now - a.at <= FiveMinutes)
               => AlertsFor(id, sink'.batch) = {}
    ]_vars

\* A vehicle was over the limit at the start, when the sink was
\* unavailable; a minute later it is over the limit again and the sink is
\* there: the poll has delivered nothing, and the sink has never received
\* an alert for the vehicle.
DebounceRecordedWitness ==
  /\ call.op \in {"refreshOnce", "checkSpeedOnly"}
  /\ ~ret.threw
  /\ call.sinkUp
  /\ now = StartTime + MsPerMinute
  /\ \E id \in VehicleIds :
       /\ OverLimit(id, call)
       /\ [vehicleId |-> id, at |-> StartTime] \in sink.missed
       /\ recentSpeedAlerts[id] = StartTime
       /\ sink.batch = << >>
       /\ \A a \in sink.received : a.vehicleId # id

JobEnvs ==
  {Env(companyId, username, password, "") :
     companyId \in {"", " ", "7"}, username \in {"", " ", "user"},
     password \in {"", " ", "secret"}}

\* Vehicle 1 is over the limit and has a telemetry time, vehicle 2 neither.
JobVehicles ==
  {Vehicle(1, 100, toISOString(0), 80, NULL, NULL, NULL), OnlyId(2)}

JobClocks == {StartTime, StartTime + SPEED_ALERT_COOLDOWN + MsPerMinute}

JobRefresh ==
  /\ RefreshOnce(JobEnvs, JobScripts, SeqsUpTo(JobVehicles, MaxBatch))
  /\ UNCHANGED <<job, observed>>

JobCheck ==
  /\ CheckSpeedOnly(JobEnvs, JobScripts, SeqsUpTo(JobVehicles, 1))
  /\ UNCHANGED <<job, observed>>

JobTick == Tick(JobClocks)

InitJob == Idle

NextJob == JobRefresh \/ JobCheck \/ JobTick

SpecJob == InitJob /\ [][NextJob]_vars

(***************************************************************************)
(* Claims about the polls, under SpecJob                                   *)
(***************************************************************************)
Credentials == {"GPSBUDDY_COMPANY_ID", "GPSBUDDY_USERNAME", "GPSBUDDY_PASSWORD"}

\* The credentials that are missing or blank.
MissingKeys(env) == {k \in Credentials : env[k] \in {"", " "}}

Range(s) == {s[i] : i \in 1..Len(s)}

AlertTables == <<recentSpeedAlerts, maxSpeedTracker>>

\* C16.  A call of refreshOnce with its credentials takes its steps in the
\* order fetch, persist, check, each after the one before has succeeded;
\* it returns {meta, persisted} exactly when it has taken all three; when
\* the fetch fails the store and the alert tables are as they were and
\* nothing is sent, and when the persistence fails the call throws and the
\* store is as it was before the poll.
RefreshInOrder ==
  [][(call'.op = "refreshOnce" /\ MissingKeys(call'.env) = {})
       => /\ call'.steps # << >>
          /\ IsPrefix(call'.steps, <<"fetch", "persist", "check">>)
          /\ ~ret'.threw <=> call'.steps = <<"fetch", "persist", "check">>
          /\ ~ret'.threw => call'.fetched /\ call'.persisted
          /\ ~call'.fetched
               => /\ ret'.threw
                  /\ UNCHANGED <<dbVars, AlertTables>>
                  /\ sink'.batch = << >>
          /\ (call'.fetched /\ ~call'.persisted)
               => /\ ret'.threw
                  /\ UNCHANGED <<dbVars, AlertTables>>
                  /\ sink'.batch = << >>
    ]_vars

\* After a poll that has stored vehicle 1, a refreshOnce has fetched and
\* its persistence has failed: it has thrown, and the store holds what the
\* earlier poll has left, one row in either table.
RefreshInOrderWitness ==
  /\ call.op = "refreshOnce"
  /\ call.steps = <<"fetch", "persist">>
  /\ ret.threw
  /\ Count(gps_vehicle_last) = 1
  /\ Count(gps_vehicle_history) = 1
  /\ Has(recentSpeedAlerts, 1)
  /\ sink.batch = << >>

\* C17.  A call of checkSpeedOnly leaves LastKnownState and HistoryRecord
\* as they are, whatever it has fetched; and when it has fetched a batch it
\* has run the speed check on it: every vehicle of the batch over the limit
\* is in both alert tables.
CheckSpeedOnlyReadOnly ==
  [][call'.op = "checkSpeedOnly"
       => /\ UNCHANGED dbVars
          /\ call'.fetched
               => /\ ~ret'.threw
                  /\ call'.steps = <<"fetch", "check">>
                  /\ \A id \in Range(call'.speeders) :
                       /\ Has(recentSpeedAlerts', id)
                       /\ Has(maxSpeedTracker', id)
    ]_vars

\* The store is empty; a checkSpeedOnly has fetched vehicle 1 over the
\* limit and has sent its alert, and the store is empty still.
CheckSpeedOnlyReadOnlyWitness ==
  /\ call.op = "checkSpeedOnly"
  /\ call.speeders = <<1>>
  /\ ret = Returned(1)
  /\ Len(sink.batch) = 1
  /\ Has(recentSpeedAlerts, 1)
  /\ gps_vehicle_last = EmptyBag
  /\ gps_vehicle_history = EmptyBag

\* C20.  A call of refreshOnce or checkSpeedOnly with a credential missing
\* or blank throws the error ENV_MISSING that lists the missing credentials
\* and no other, has issued no upstream request, and leaves the store, the
\* token cache and the alert tables as they were.
EnvMissingFailsFast ==
  [][(/\ call'.op \in {"refreshOnce", "checkSpeedOnly"}
      /\ MissingKeys(call'.env) # {})
       => /\ ret'.threw
          /\ call'.steps = << >>
          /\ call'.requests = 0
          /\ ret'.error.code = "ENV_MISSING"
          /\ Range(ret'.error.missing) = MissingKeys(call'.env)
          /\ Len(ret'.error.missing) = Cardinality(MissingKeys(call'.env))
          /\ UNCHANGED <<dbVars, tokenCache, AlertTables>>
    ]_vars

\* With vehicle 1 stored, a token cached and an alert under cooldown, a
\* checkSpeedOnly without company id and with a blank password has thrown
\* ENV_MISSING for the two.
EnvMissingFailsFastWitness ==
  /\ call.op = "checkSpeedOnly"
  /\ call.env = Env("", "user", " ", "")
  /\ ret.threw
  /\ ret.error = [code |-> "ENV_MISSING",
                  missing |-> <<"GPSBUDDY_COMPANY_ID", "GPSBUDDY_PASSWORD">>]
  /\ Count(gps_vehicle_last) = 1
  /\ tokenCache.token # NULL
  /\ Has(recentSpeedAlerts, 1)

(***************************************************************************)
(* The refresh job as the process runs it: startGpsRefreshJob, the cron    *)
(* task, the interval of the speed check and the polls they start.  A poll *)
(* is in flight from the instant its callback starts it until its fetch    *)
(* settles; the rest of the poll then runs at once.                        *)
(***************************************************************************)
REFRESH_EVERY == Ms(5 * 60 * 1000)    \* cron '*/5 * * * *'
CHECK_EVERY == Ms(10 * 1000)          \* setInterval(..., 10 * 1000)
CLEANUP_AT == Ms((3 * 60 + 10) * 60 * 1000)   \* cron '10 3 * * *'
RETENTION_HORIZON == 30               \* GpsModel.deleteHistoryOlderThan(30)

\* The clock of the schedule goes by half the interval of the speed check.
ClockStep == CHECK_EVERY \div 2

MaxFetchSteps == 5    \* clock steps within which a fetch settles
MaxScheduleSteps == 8 \* clock steps the schedule runs over
LeadSteps == 3        \* clock steps from the earliest start to the cron's minute

\* A poll in flight: its operation, the callback that has started it, the
\* instant it was started at.
Invocation(op, by, at) == [op |-> op, by |-> by, at |-> at]

Remove(s, i) == SubSeq(s, 1, i - 1) \o SubSeq(s, i + 1, Len(s))

\* The timers startGpsRefreshJob starts: task.start(), cleanupTask.start()
\* and setInterval.
scheduledWithoutCleanup == {"refresh", "speedCheck"}

scheduled == {"refresh", "cleanup", "speedCheck"}

\* startGpsRefreshJob(): nothing when the job is not enabled; an error
\* when it is and a credential is missing; or else the two cron tasks, the
\* interval, and a refresh started right away.
StartGpsRefreshJob(envs) ==
  \E env \in envs :
    \E cfg \in {validateEnv(env, FALSE)}, creds \in {validateEnv(env, TRUE)} :
      /\ ~job.started
      /\ call' = [op |-> "startGpsRefreshJob", env |-> env]
      /\ IF cfg.threw
         THEN /\ ret' = Raised(cfg.error)
              /\ UNCHANGED job
         ELSE IF ~cfg.gpsRefreshEnabled
         THEN /\ ret' = Returned([enabled |-> FALSE])
              /\ UNCHANGED job
         ELSE IF creds.threw
         THEN /\ ret' = Raised(creds.error)
              /\ UNCHANGED job
         ELSE /\ ret' = Returned([enabled |-> TRUE])
              /\ job' = [started |-> TRUE,
                         timers |-> scheduled,
                         nextCheck |-> now + CHECK_EVERY,
                         lastCron |-> job.lastCron,
                         lastCleanup |-> job.lastCleanup,
                         inFlight |-> <<Invocation("refreshOnce", "startup",
                                                   now)>>,
                         logged |-> job.logged]
      /\ UNCHANGED <<now, dbVars, alertVars, tokenCache>>

\* The cron task fires in the first second of every fifth minute, whatever
\* is in flight, and starts a refresh.
CronFires ==
  /\ "refresh" \in job.timers
  /\ now % REFRESH_EVERY = 0
  /\ job.lastCron # now
  /\ job' = [job EXCEPT !.lastCron = now,
                        !.inFlight = Append(@, Invocation("refreshOnce",
                                                          "cron", now))]
  /\ call' = [op |-> "cron"]
  /\ ret' = Returned(NULL)
  /\ UNCHANGED <<now, dbVars, alertVars, tokenCache>>

\* The interval fires every 10 seconds, whatever is in flight, and starts a
\* speed check.
IntervalFires ==
  /\ "speedCheck" \in job.timers
  /\ now >= job.nextCheck
  /\ job' = [job EXCEPT !.nextCheck = now + CHECK_EVERY,
                        !.inFlight = Append(@, Invocation("checkSpeedOnly",
                                                          "interval", now))]
  /\ call' = [op |-> "interval"]
  /\ ret' = Returned(NULL)
  /\ UNCHANGED <<now, dbVars, alertVars, tokenCache>>

\* The cleanup task fires in the first second of 03:10 of every day and
\* runs deleteHistoryOlderThan(30) at once; the statement may fail, and the
\* callback catches and logs what it throws.
CleanupFires ==
  /\ "cleanup" \in job.timers
  /\ now % MsPerDay = CLEANUP_AT
  /\ job.lastCleanup # now
  /\ call' = [op |-> "cleanup", days |-> RETENTION_HORIZON]
  /\ \E failed \in BOOLEAN :
       IF failed
       THEN /\ ret' = Threw
            /\ job' = [job EXCEPT !.lastCleanup = now,
                                  !.logged = @ \cup {"cleanup error"}]
            /\ UNCHANGED gps_vehicle_history
       ELSE \E r \in {deleteHistoryOlderThan(RETENTION_HORIZON)} :
              /\ ret' = Returned(r.value)
              /\ job' = [job EXCEPT !.lastCleanup = now]
              /\ gps_vehicle_history' = r.history
  /\ UNCHANGED <<now, gps_vehicle_last, alertVars, tokenCache>>

\* console.error of the callback that has started a poll, when the poll
\* throws.
ErrorLine(invocation) ==
  IF invocation.by = "cron" THEN "refresh error"
  ELSE IF invocation.by = "startup" THEN "startup refresh error"
  ELSE "speed check error"

\* The fetch of a poll in flight settles, and the poll runs to its end; the
\* callback catches and logs what it throws.
Settles(envs, scripts, batches) ==
  \E i \in 1..Len(job.inFlight) :
    /\ UNCHANGED observed
    /\ IF job.inFlight[i].op = "refreshOnce"
       THEN RefreshOnce(envs, scripts, batches)
       ELSE CheckSpeedOnly(envs, scripts, batches)
    /\ job' = [job EXCEPT
                 !.inFlight = Remove(@, i),
                 !.logged = IF ret'.threw
                            THEN @ \cup {ErrorLine(job.inFlight[i])}
                            ELSE @]

\* The clock moves on by one step, once the callbacks that are due have
\* fired; no fetch lasts longer than MaxFetchSteps steps.
ScheduleTick(until) ==
  /\ now + ClockStep <= until
  /\ job.started => /\ now < job.nextCheck
                    /\ now % REFRESH_EVERY = 0 => job.lastCron = now
                    /\ now % MsPerDay = CLEANUP_AT => job.lastCleanup = now
  /\ \A i \in 1..Len(job.inFlight) :
       now + ClockStep - job.inFlight[i].at <= MaxFetchSteps * ClockStep
  /\ Tick({now + ClockStep})
  /\ UNCHANGED <<tokenCache, job>>

\* The process starts within LeadSteps steps before the first second of a
\* fifth minute, with the job enabled, disabled or without a credential.
ScheduleEnvs ==
  {Configured, Env("7", "user", "secret", "false"), Env("7", "user", "", "1"),
   Env("", "", "", "")}

\* 03:10 of the day after the retention horizon: the cron task and the
\* cleanup task both fire in its first second.
ScheduleMinute == (RETENTION_HORIZON + 1) * MsPerDay + CLEANUP_AT

ScheduleStarts == {ScheduleMinute - k * ClockStep : k \in 1..LeadSteps}

InitSchedule ==
  /\ now \in ScheduleStarts
  /\ gps_vehicle_last = EmptyBag
  /\ gps_vehicle_history = EmptyBag
  /\ recentSpeedAlerts = << >>
  /\ maxSpeedTracker = << >>
  /\ sink = NoAlerts
  /\ observed = {}
  /\ tokenCache = EmptyTokenCache
  /\ job = NotStarted
  /\ call = [op |-> "none"]
  /\ ret = Returned(NULL)

ScheduleStart == StartGpsRefreshJob(ScheduleEnvs)

\* A record of the first day of the epoch: older than the horizon.
Stale(id) == Vehicle(id, NULL, toISOString(0), NULL, NULL, NULL, NULL)

ScheduleSettles ==
  Settles({Configured}, JobScripts, {<<OnlyId(1)>>, <<Stale(1)>>})

ScheduleClock ==
  ScheduleTick(ScheduleMinute + (MaxScheduleSteps - LeadSteps) * ClockStep)

NextSchedule ==
  \/ ScheduleStart
  \/ CronFires
  \/ CleanupFires
  \/ IntervalFires
  \/ ScheduleSettles
  \/ ScheduleClock

SpecSchedule == InitSchedule /\ [][NextSchedule]_vars

(***************************************************************************)
(* Claims about the schedule, under SpecSchedule                           *)
(***************************************************************************)
InFlight(op, sources) ==
  {i \in 1..Len(job.inFlight) :
     job.inFlight[i].op = op /\ job.inFlight[i].by \in sources}

\* C18 as stated.  At no time are two polls of checkSpeedOnly that the
\* interval has started in flight together, nor two polls of refreshOnce
\* that the cron task or the startup refresh has started, however long a
\* fetch takes.
CadencesSerialized ==
  /\ Cardinality(InFlight("checkSpeedOnly", {"interval"})) <= 1
  /\ Cardinality(InFlight("refreshOnce", {"cron", "startup"})) <= 1

\* C38.  startGpsRefreshJob with the refresh cron disabled returns
\* {enabled: false} and starts no timer and no fetch; enabled without a
\* credential it raises ENV_MISSING before it schedules anything; enabled
\* with the credentials it starts the 5-minute refresh, the daily cleanup,
\* the 10-second speed check and one refreshOnce at once.  The cleanup
\* runs deleteHistoryOlderThan with a horizon of 30 days.  No run of
\* refreshOnce, checkSpeedOnly or the cleanup, whether it throws or not,
\* stops a timer: the error is logged and the timers stay as they are.
JobStartsAndKeepsRunning ==
  [][/\ call'.op = "startGpsRefreshJob" =>
          LET env == call'.env
              enabled == validateEnv(env, FALSE).gpsRefreshEnabled
              credentials ==
                \A i \in 1..Len(required) : trim(env[required[i]]) # ""
          IN /\ UNCHANGED <<dbVars, alertVars, tokenCache>>
             /\ ~enabled => /\ ret' = Returned([enabled |-> FALSE])
                             /\ job' = job
                             /\ job'.timers = {}
                             /\ job'.inFlight = << >>
             /\ enabled /\ ~credentials => /\ ret'.threw
                                           /\ ret'.error.code = "ENV_MISSING"
                                           /\ job' = job
                                           /\ job'.timers = {}
                                           /\ job'.inFlight = << >>
             /\ enabled /\ credentials =>
                  /\ ret' = Returned([enabled |-> TRUE])
                  /\ job'.timers = {"refresh", "cleanup", "speedCheck"}
                  /\ job'.nextCheck = now + 10
                  /\ job'.inFlight =
                       <<Invocation("refreshOnce", "startup", now)>>
     /\ call'.op = "cron" =>
          /\ now % (5 * 60) = 0
          /\ job'.inFlight =
               Append(job.inFlight, Invocation("refreshOnce", "cron", now))
     /\ call'.op = "interval" =>
          /\ job'.nextCheck = now + 10
          /\ job'.inFlight =
               Append(job.inFlight,
                      Invocation("checkSpeedOnly", "interval", now))
     /\ call'.op = "cleanup" =>
          /\ now % MsPerDay = (3 * 60 + 10) * 60
          /\ call'.days = 30
          /\ \/ ret'.threw /\ UNCHANGED gps_vehicle_history
             \/ /\ ~ret'.threw
                /\ gps_vehicle_history' = deleteHistoryOlderThan(30).history
     /\ job.started =>
          /\ job'.started
          /\ job'.timers = job.timers
          /\ ret'.threw /\ call'.op \in {"refreshOnce", "checkSpeedOnly",
                                          "cleanup"}
               => job'.logged # {}
    ]_vars

\* The speed check of the interval has thrown, and the callback has logged
\* the error; after it the startup refresh has stored a record of the first
\* day of the epoch, and the cleanup of 03:10 has removed its history row;
\* the three timers still run.
JobStartsAndKeepsRunningWitness ==
  /\ call.op = "cleanup"
  /\ ret = Returned(1)
  /\ "speed check error" \in job.logged
  /\ job.timers = {"refresh", "cleanup", "speedCheck"}
  /\ Count(gps_vehicle_last) = 1
  /\ gps_vehicle_history = EmptyBag

(***************************************************************************)
(* The pipeline: every operation on the store, in any order                *)
(***************************************************************************)
\* SELECT ... FROM gps_vehicle_last ORDER BY plate: the rows of the table,
\* in the order of a column the model does not keep.
getLastAll == gps_vehicle_last

GetLastAll ==
  /\ ret' = Returned(getLastAll)
  /\ call' = [op |-> "getLastAll"]
  /\ UNCHANGED <<now, dbVars, alertVars, clientVars>>

GetTodayStartValues ==
  /\ ret' = Returned(getTodayStartValues)
  /\ call' = [op |-> "getTodayStartValues"]
  /\ UNCHANGED <<now, dbVars, alertVars, clientVars>>

\* The fleet of SpecPipeline: no vehicle has a velocity; a record carries
\* its id alone, or the telemetry instant 0 and a drive counter.
PipelineVehicles == {v \in UpsertVehicles : v.drivetime # 100}

PipelineUpsert == UpsertLastAndHistory(SeqsUpTo(PipelineVehicles, MaxBatch))

PipelineRefresh ==
  /\ RefreshOnce({Configured}, JobScripts, SeqsUpTo(PipelineVehicles, 1))
  /\ UNCHANGED <<job, observed>>

PipelineCheck ==
  /\ CheckSpeedOnly({Configured}, JobScripts, SeqsUpTo(PipelineVehicles, 1))
  /\ UNCHANGED <<job, observed>>

PipelineDelete == DeleteHistoryOlderThan(DayArgs)

PipelineHistory ==
  GetHistory(VehicleIds, {NULL, 1}, {NullText, toISOString(0)})

PipelinePage ==
  GetHistoryPage(VehicleIds, {NULL, Fraction}, {NULL, 1}, {NullText})

PipelineTick == Tick(Clocks)

InitPipeline == Idle

NextPipeline ==
  \/ PipelineUpsert
  \/ PipelineRefresh
  \/ PipelineCheck
  \/ PipelineDelete
  \/ PipelineHistory
  \/ PipelinePage
  \/ GetLastAll
  \/ GetTodayStartValues
  \/ PipelineTick

SpecPipeline == InitPipeline /\ [][NextPipeline]_vars

\* C9.  LastKnownState holds at most one row for a vehicleId in every
\* state; a step changes it only when it is a call of upsertLastAndHistory,
\* alone or inside refreshOnce, so that deleteHistoryOlderThan, getHistory,
\* getHistoryPage, getTodayStartValues, getLastAll and checkSpeedOnly leave
\* it as it is; and no step removes the row of a vehicle.
LastStateOwned ==
  /\ [](\A id \in VehicleIds :
          Count(VehicleRows(gps_vehicle_last, id)) <= 1)
  /\ [][/\ gps_vehicle_last' # gps_vehicle_last
             => call'.op \in {"upsertLastAndHistory", "refreshOnce"}
        /\ \A id \in VehicleIds :
             Count(VehicleRows(gps_vehicle_last, id)) > 0
               => Count(VehicleRows(gps_vehicle_last', id)) > 0
       ]_vars

\* The retention cleanup has removed the history of both vehicles, and
\* each has kept its one last-state row, the row of its latest upsert.
LastStateOwnedWitness ==
  /\ call.op = "deleteHistoryOlderThan"
  /\ ret.value = NumVehicles
  /\ gps_vehicle_history = EmptyBag
  /\ \A id \in VehicleIds :
       /\ Count(VehicleRows(gps_vehicle_last, id)) = 1
       /\ \E r \in Rows(gps_vehicle_last) :
            r.vehicleid = id /\ r.time_indicator = toISOString(0)

(***************************************************************************)
(* The read paths of the controller: apiLive and apiRefresh                *)
(***************************************************************************)
\* e && e.message ? e.message : fallback
messageOnly(message, fallback) == message

messageOr(message, fallback) == IF message # "" THEN message ELSE fallback

\* The rows of getLastAll() as a list.  The list is in the order of the
\* plates, a column the model does not keep: any order of the rows, each of
\* which the table holds once.
Listings(T) ==
  {s \in [1..Cardinality(Rows(T)) -> Rows(T)] :
     \A r \in Rows(T) : \E i \in 1..Cardinality(Rows(T)) : s[i] = r}

\* The vehicles of a response: the rows, each with the daily values
\* addDailyTimesToVehicles has added to it.
withDaily(vehicles) ==
  LET daily == addDailyTimesToVehicles(vehicles)
  IN [i \in 1..Len(vehicles) |-> [row |-> vehicles[i], daily |-> daily[i]]]

\* res.status(200).json({ok, error, vehicles, meta}); of meta the model
\* keeps whether its member readonly is true.
MetaResponse(ok, error, vehicles, readonly) ==
  [status |-> 200, ok |-> ok, error |-> error, vehicles |-> vehicles,
   readonly |-> readonly]

Response(ok, error, vehicles) == MetaResponse(ok, error, vehicles, FALSE)

\* user.role === 'readonly' alone.
isReadonlyStrict(role) == role = "readonly"

\* user && (user.role === 'readonly' || user.role === 'accounting_readonly');
\* the role of a request without a session user is the empty text.
isReadonly(role) == role \in {"readonly", "accounting_readonly"}

\* The record of a request: the role of its user, whether it was served as
\* a read-only one, and how far refreshFromApiAndPersist has got.
Request(op, role, readonly, env, fetched, persisted) ==
  [op |-> op, role |-> role, readonly |-> readonly, env |-> env,
   fetched |-> fetched, persisted |-> persisted]

\* try { refreshFromApiAndPersist(), respond with the rows after the
\* upsert } catch (e) { respond with the rows as they are, and the error }.
\* message is the text of the error a failing fetch or statement throws.
RefreshAndRespond(op, role, fallback, envs, scripts, batches, messages) ==
  \E env \in envs, message \in messages :
    \E cfg \in {validateEnv(env, TRUE)} :
      IF cfg.threw
      THEN /\ call' = Request(op, role, FALSE, env, FALSE, FALSE)
           /\ \E vehicles \in Listings(getLastAll) :
                ret' = Returned(Response(FALSE,
                                         messageOr(cfg.error.code, fallback),
                                         withDaily(vehicles)))
           /\ UNCHANGED <<dbVars, tokenCache>>
      ELSE
        \E f \in Fetched(scripts, batches), failAt \in 0..MaxBatch,
           fail \in {"last", "history"} :
          /\ failAt <= Len(f.vehicles)
          /\ failAt = 0 => fail = "last"
          /\ (f.ok /\ failAt = 0) => message = ""
          /\ tokenCache' = f.tokenCache
          /\ \E r \in {upsertLastAndHistory(f.vehicles, failAt, fail)} :
               IF f.ok /\ ~r.threw
               THEN /\ gps_vehicle_last' = r.last
                    /\ gps_vehicle_history' = r.history
                    /\ call' = Request(op, role, FALSE, env, TRUE, TRUE)
                    /\ \E vehicles \in Listings(r.last) :
                         ret' = Returned(Response(TRUE, "",
                                                  withDaily(vehicles)'))
               ELSE /\ UNCHANGED dbVars
                    /\ call' = Request(op, role, FALSE, env, f.ok, FALSE)
                    /\ \E vehicles \in Listings(getLastAll) :
                         ret' = Returned(Response(FALSE,
                                                  messageOr(message, fallback),
                                                  withDaily(vehicles)))

\* apiLive: the rows as they are for a read-only user; a refresh, or the
\* rows as they are and the error, for any other.
ApiLive(roles, envs, scripts, batches, messages) ==
  /\ UNCHANGED <<now, alertVars, job>>
  /\ \E role \in roles :
       IF isReadonly(role)
       THEN /\ call' = Request("apiLive", role, TRUE, Configured, FALSE,
                               FALSE)
            /\ \E vehicles \in Listings(getLastAll) :
                 ret' = Returned(MetaResponse(TRUE, "", withDaily(vehicles),
                                              TRUE))
            /\ UNCHANGED <<dbVars, tokenCache>>
       ELSE RefreshAndRespond("apiLive", role, "GPS API erisilemedi", envs,
                              scripts, batches, messages)

ApiRefresh(envs, scripts, batches, messages) ==
  /\ UNCHANGED <<now, alertVars, job>>
  /\ RefreshAndRespond("apiRefresh", "", "GPS refresh basarisiz", envs,
                       scripts, batches, messages)

\* The fleet of SpecApi: vehicle 1 at the midnight of UTC+3 and an hour
\* later, its drive counter gone up, and vehicle 2 at midnight.
ApiVehicles ==
  {Vehicle(1, NULL, toISOString(StartTime - turkeyOffset), 80, NULL, NULL, NULL),
   Vehicle(1, NULL, toISOString(StartTime - turkeyOffset + MsPerHour), 100,
           NULL, NULL, NULL),
   Vehicle(2, NULL, toISOString(StartTime - turkeyOffset), 80, NULL, NULL, NULL)}

ApiEnvs == {Configured, Env("7", " ", "secret", "")}

\* The text of an error: none, or that of a timeout.
ErrorMessages == {"", "timeout of 20000ms exceeded"}

LiveRequests ==
  ApiLive({"admin", "readonly", "accounting_readonly"}, ApiEnvs, JobScripts,
          SeqsUpTo(ApiVehicles, MaxBatch), ErrorMessages)

RefreshRequests ==
  ApiRefresh(ApiEnvs, JobScripts, SeqsUpTo(ApiVehicles, MaxBatch),
             ErrorMessages)

InitApi == Idle

NextApi == LiveRequests \/ RefreshRequests

SpecApi == InitApi /\ [][NextApi]_vars

(***************************************************************************)
(* Claims about the read paths, under SpecApi                              *)
(***************************************************************************)
\* The daily values of a row, by the first row of today of its vehicle.
DailyOf(v) ==
  LET start == IF TodayRows(v.vehicleid) # {} THEN Baseline(v.vehicleid)
               ELSE [drivetime |-> 0, worktime |-> 0, idletime |-> 0,
                     stoptime |-> 0]
  IN [dailyDrivetime |-> Max(0, Value(v.drivetime) - Value(start.drivetime)),
      dailyWorktime |-> Max(0, Value(v.worktime) - Value(start.worktime)),
      dailyIdletime |-> Max(0, Value(v.idletime) - Value(start.idletime)),
      dailyStoptime |-> Max(0, Value(v.stoptime) - Value(start.stoptime))]

\* C19.  A request of apiLive or apiRefresh is answered with status 200,
\* whatever has failed: with ok = false and an error message that is not
\* empty when the fetch or the persistence (or the check of the
\* environment) has failed, with ok = true when the refresh has succeeded;
\* and the vehicles of the answer are the rows LastKnownState then holds,
\* after the upsert when there was one, each with its daily values.
ReadPathsDegrade ==
  call.op \in {"apiLive", "apiRefresh"}
    => LET res == ret.value
       IN /\ ~ret.threw
          /\ res.status = 200
          /\ call.readonly => res.ok
          /\ ~call.readonly => (res.ok <=> call.fetched /\ call.persisted)
          /\ ~res.ok => res.error # ""
          /\ Len(res.vehicles) = Count(gps_vehicle_last)
          /\ {res.vehicles[i].row : i \in 1..Len(res.vehicles)}
               = Rows(gps_vehicle_last)
          /\ \A i \in 1..Len(res.vehicles) :
               res.vehicles[i].daily = DailyOf(res.vehicles[i].row)

\* Both vehicles are stored, vehicle 1 with 20 seconds of driving today; a
\* request of apiRefresh has fetched and has failed to persist, with an
\* error without a text: the answer is not ok, has an error message, and
\* lists the two rows with their daily values.
ReadPathsDegradeWitness ==
  /\ call.op = "apiRefresh"
  /\ call.fetched
  /\ ~call.persisted
  /\ ret.value.ok = FALSE
  /\ ret.value.error = "GPS refresh basarisiz"
  /\ Len(ret.value.vehicles) = 2
  /\ \E i \in 1..2 :
       /\ ret.value.vehicles[i].row.vehicleid = 1
       /\ ret.value.vehicles[i].row.drivetime = 100
       /\ ret.value.vehicles[i].daily.dailyDrivetime = 20

\* C36.  A request of apiLive by a user whose role is readonly or
\* accounting_readonly triggers no ingestion: it fetches nothing and writes
\* nothing, so that LastKnownState, HistoryRecord and the token cache are
\* after it what they were before; its answer has ok = true and
\* meta.readonly = true and lists the rows of LastKnownState.
ReadonlyNeverIngests ==
  [][(call'.op = "apiLive"
        /\ call'.role \in {"readonly", "accounting_readonly"})
     => /\ ~call'.fetched
        /\ ~call'.persisted
        /\ gps_vehicle_last' = gps_vehicle_last
        /\ gps_vehicle_history' = gps_vehicle_history
        /\ tokenCache' = tokenCache
        /\ ret' = Returned(ret'.value)
        /\ ret'.value.status = 200
        /\ ret'.value.ok
        /\ ret'.value.readonly
        /\ {ret'.value.vehicles[i].row : i \in 1..Len(ret'.value.vehicles)}
             = Rows(gps_vehicle_last)
        /\ Len(ret'.value.vehicles) = Count(gps_vehicle_last)
    ]_vars

\* Both vehicles are stored and a token is cached; a user whose role is
\* accounting_readonly has asked for the live data and has got the two
\* rows.
ReadonlyNeverIngestsWitness ==
  /\ call.op = "apiLive"
  /\ call.role = "accounting_readonly"
  /\ ret.value.readonly
  /\ Len(ret.value.vehicles) = 2
  /\ tokenCache.token # NULL
  /\ Count(gps_vehicle_history) >= 2

(***************************************************************************)
(* apiDriveStopReport                                                      *)
(***************************************************************************)
\* A history row of this part keeps the velocity, latitude and longitude
\* columns beside the columns of Record.  Coordinates are whole degrees and
\* the points of the model lie on one meridian; distances are metres until
\* they are rounded, and tenths of a kilometre after.
MaxSamples == 5       \* samples of the history of a report, a minute apart

STOP_THRESHOLD == 1

REPORT_LIMIT == 10000

\* new Date(text).getTime() of an ISO text.
getTime(iso) == iso[1] * MsPerDay + iso[2]

\* new Date(startDate + 'T00:00:00+03:00').toISOString(), startDate the
\* number of a day.
sinceIsoOf(startDate) == toISOString(startDate * MsPerDay - turkeyOffset)

\* new Date(endDate + 'T23:59:59+03:00').toISOString()
untilIsoOf(endDate) ==
  toISOString(endDate * MsPerDay + (MsPerDay - Ms(1000)) - turkeyOffset)

\* velocity >= STOP_THRESHOLD taken strictly.
isDrivingStrict(h) ==
  LET velocity == IF h.velocity # NULL THEN h.velocity ELSE 0
  IN velocity > STOP_THRESHOLD

\* const velocity = h.velocity != null ? Number(h.velocity) : 0;
\* const isDriving = velocity >= STOP_THRESHOLD;
isDriving(h) ==
  LET velocity == IF h.velocity # NULL THEN h.velocity ELSE 0
  IN velocity >= STOP_THRESHOLD

\* The segment a sample starts.
Segment(type, h) ==
  [type |-> type, startTime |-> h.time_indicator,
   startLat |-> h.latitude, startLng |-> h.longitude,
   endTime |-> h.time_indicator,
   endLat |-> h.latitude, endLng |-> h.longitude]

\* The loop over the history, from sample i on: segments are the segments
\* closed so far, currentSegment is << >> for null and <<segment>> else.
RECURSIVE buildSegments(_, _, _, _)
buildSegments(history, i, segments, currentSegment) ==
  IF i > Len(history)
  THEN IF currentSegment # << >> THEN segments \o currentSegment
       ELSE segments
  ELSE LET h == history[i]
           type == IF isDriving(h) THEN "Drive" ELSE "Stop"
       IN IF currentSegment = << >>
          THEN buildSegments(history, i + 1, segments, <<Segment(type, h)>>)
          ELSE IF currentSegment[1].type = type
          THEN buildSegments(history, i + 1, segments,
                 <<[currentSegment[1] EXCEPT !.endTime = h.time_indicator,
                                             !.endLat = h.latitude,
                                             !.endLng = h.longitude]>>)
          ELSE buildSegments(history, i + 1,
                             Append(segments, currentSegment[1]),
                             <<Segment(type, h)>>)

\* Math.max(0, Math.floor(durationMs / 1000)): the instants of the model
\* are whole seconds, of which the quotient is the difference itself.
durationSecondsOf(seg) ==
  Max(0, getTime(seg.endTime) - getTime(seg.startTime))

\* formatDuration: `${h}h ${m}m`
formatDuration(seconds) == <<seconds \div 3600, (seconds % 3600) \div 60>>

\* R * c * 1.2 of the Haversine formula, in metres, of two points of one
\* meridian: dLng is 0, a is the square of sin(dLat / 2) and c is |dLat|,
\* so that a degree is 6371 km * pi / 180 * 1.2.
ROAD_METRES_PER_DEGREE == 133434

Abs(n) == IF n >= 0 THEN n ELSE 0 - n

haversine(startLat, endLat) == Abs(endLat - startLat) * ROAD_METRES_PER_DEGREE

\* The truth value of a coordinate in `startLat && startLng && ...`.
truthy(v) == v # NULL /\ v # NaN /\ v # 0

\* The distance of a segment without the test of its coordinates.
distanceUnguarded(seg) ==
  LET startLat == IF seg.startLat # NULL THEN seg.startLat ELSE 0
      endLat == IF seg.endLat # NULL THEN seg.endLat ELSE 0
      distance == haversine(startLat, endLat)
  IN IF distance > 100 THEN (distance + 50) \div 100 ELSE 0

\* seg.distance = distance > 0.1 ? Math.round(distance * 10) / 10 : 0, the
\* distance being 0 unless the four coordinates are truthy.
distanceOf(seg) ==
  LET distance ==
        IF /\ truthy(seg.startLat) /\ truthy(seg.startLng)
           /\ truthy(seg.endLat) /\ truthy(seg.endLng)
        THEN haversine(seg.startLat, seg.endLat)
        ELSE 0
  IN IF distance > 100 THEN (distance + 50) \div 100 ELSE 0

withDuration(segments) ==
  [k \in 1..Len(segments) |->
     [type |-> segments[k].type, startTime |-> segments[k].startTime,
      startLat |-> segments[k].startLat, startLng |-> segments[k].startLng,
      endTime |-> segments[k].endTime,
      endLat |-> segments[k].endLat, endLng |-> segments[k].endLng,
      durationSeconds |-> durationSecondsOf(segments[k]),
      distance |-> distanceOf(segments[k])]]

RECURSIVE totalSeconds(_, _, _)
totalSeconds(segments, type, k) ==
  IF k > Len(segments) THEN 0
  ELSE (IF segments[k].type = type THEN segments[k].durationSeconds ELSE 0)
       + totalSeconds(segments, type, k + 1)

\* totalDistance += seg.distance, of the Drive segments.
RECURSIVE totalDistanceOf(_, _)
totalDistanceOf(segments, k) ==
  IF k > Len(segments) THEN 0
  ELSE (IF segments[k].type = "Drive" THEN segments[k].distance ELSE 0)
       + totalDistanceOf(segments, k + 1)

\* The answer of apiDriveStopReport: 400 without a start or an end date,
\* the empty report for an empty history, the segments and their totals
\* else.
apiDriveStopReport(vehicleId, startDate, endDate) ==
  IF startDate = NULL \/ endDate = NULL
  THEN [status |-> 400, ok |-> FALSE, segments |-> << >>,
        summary |-> [totalDrive |-> 0, totalStop |-> 0]]
  ELSE
    LET history == getHistory(vehicleId, REPORT_LIMIT, sinceIsoOf(startDate),
                              untilIsoOf(endDate))
    IN IF Len(history) = 0
       THEN [status |-> 200, ok |-> TRUE, segments |-> << >>,
             summary |-> [totalDrive |-> 0, totalStop |-> 0,
                          totalDistance |-> 0]]
       ELSE
         LET segments == withDuration(buildSegments(history, 1, << >>, << >>))
             totalDriveSeconds == totalSeconds(segments, "Drive", 1)
             totalStopSeconds == totalSeconds(segments, "Stop", 1)
         IN [status |-> 200, ok |-> TRUE, segments |-> segments,
             summary |-> [totalDrive |-> formatDuration(totalDriveSeconds),
                          totalDriveSeconds |-> totalDriveSeconds,
                          totalStop |-> formatDuration(totalStopSeconds),
                          totalStopSeconds |-> totalStopSeconds,
                          totalDistance |-> totalDistanceOf(segments, 1)]]

ApiDriveStopReport(ids, dates) ==
  \E vehicleId \in ids, startDate \in dates, endDate \in dates :
    /\ ret' = Returned(apiDriveStopReport(vehicleId, startDate, endDate))
    /\ call' = [op |-> "apiDriveStopReport", vehicleId |-> vehicleId,
                startDate |-> startDate, endDate |-> endDate]
    /\ UNCHANGED <<now, dbVars, alertVars, clientVars>>

\* A history row with its velocity and its coordinates.
PositionRow(id, ti, velocity, latitude, longitude) ==
  [vehicleid |-> id, time_indicator |-> ti, velocity |-> numOrNull(velocity),
   latitude |-> numOrNull(latitude), longitude |-> numOrNull(longitude),
   drivetime |-> NULL, worktime |-> NULL, idletime |-> NULL,
   stoptime |-> NULL]

\* A history row with its velocity, without coordinates.
SampleRow(id, ti, velocity) == PositionRow(id, ti, velocity, NULL, NULL)

\* The instants of the samples: a minute apart, the third of them at the
\* midnight of UTC+3 that begins day 2.
SampleInstants ==
  {StartTime - turkeyOffset + (k - 3) * MsPerMinute : k \in 1..MaxSamples}

Velocities == {NULL, 0, 1, 10}

\* The histories of vehicle 1: any of the instants, each with a velocity.
SampleTables ==
  UNION {{SetToBag({SampleRow(1, toISOString(t), f[t]) : t \in S}) :
            f \in [S -> Velocities]} : S \in SUBSET SampleInstants}

\* The histories of vehicle 1 with coordinates: any of the first
\* MaxPositions instants, each with a velocity that is missing or 10 km/h
\* and with a point of the meridian of 29 degrees, at 40 or 41 degrees of
\* latitude, or a point of which one coordinate is missing or 0.
MaxPositions == 3     \* samples of a history with coordinates

PositionInstants ==
  {StartTime - turkeyOffset + (k - 3) * MsPerMinute : k \in 1..MaxPositions}

Positions ==
  {<<40, 29>>, <<41, 29>>, <<NULL, 29>>, <<0, 29>>, <<40, NULL>>, <<40, 0>>}

PositionTables ==
  UNION {{SetToBag({PositionRow(1, toISOString(t), v[t], f[t][1], f[t][2]) :
                      t \in S}) :
            f \in [S -> Positions], v \in [S -> {NULL, 10}]} :
         S \in (SUBSET PositionInstants) \ {{}}}

\* startDate and endDate: missing, or the day before or after the midnight.
DateArgs == {NULL, 1, 2}

InitReport ==
  /\ now = StartTime
  /\ gps_vehicle_last = EmptyBag
  /\ gps_vehicle_history \in SampleTables \cup PositionTables
  /\ recentSpeedAlerts = << >>
  /\ maxSpeedTracker = << >>
  /\ sink = NoAlerts
  /\ observed = {}
  /\ tokenCache = EmptyTokenCache
  /\ job = NotStarted
  /\ call = [op |-> "none"]
  /\ ret = Returned(NULL)

\* One request, of a history of any content.
ReportOnce ==
  /\ call.op = "none"
  /\ ApiDriveStopReport(VehicleIds, DateArgs)

NextReport == ReportOnce

SpecReport == InitReport /\ [][NextReport]_vars

(***************************************************************************)
(* Claims about the Drive/Stop report, under SpecReport                    *)
(***************************************************************************)
\* The samples of the request, oldest first.
Samples ==
  OrderByAsc(Where(gps_vehicle_history,
    {r \in Rows(gps_vehicle_history) :
       /\ r.vehicleid = call.vehicleId
       /\ InstantOf(r.time_indicator)
            >= call.startDate * MsPerDay - turkeyOffset
       /\ InstantOf(r.time_indicator)
            <= call.endDate * MsPerDay + MsPerDay - 1 - turkeyOffset}))

\* The velocity of a sample, null read as 0.
VelocityAt(samples, i) ==
  IF samples[i].velocity = NULL THEN 0 ELSE samples[i].velocity

\* The samples of segment seg, by their places in samples.
SamplesOf(samples, seg) ==
  {i \in 1..Len(samples) :
     /\ InstantOf(seg.startTime) <= InstantOf(samples[i].time_indicator)
     /\ InstantOf(samples[i].time_indicator) <= InstantOf(seg.endTime)}

Reported ==
  /\ call.op = "apiDriveStopReport"
  /\ call.startDate # NULL
  /\ call.endDate # NULL

\* C21 (as stated).  Samples a minute apart with velocities 0, 0, 10, 10, 0
\* give three segments Stop, Drive, Stop; and for any history with a sample
\* the drive and stop seconds of the summary add up to the time between the
\* first and the last sample.
ReportCoversWindow ==
  Reported
    => LET res == ret.value
           samples == Samples
       IN Len(samples) > 0
            => /\ ( /\ Len(samples) = 5
                    /\ [i \in 1..5 |-> VelocityAt(samples, i)]
                         = <<0, 0, 10, 10, 0>> )
                    => [k \in 1..Len(res.segments) |-> res.segments[k].type]
                         = <<"Stop", "Drive", "Stop">>
               /\ res.summary.totalDriveSeconds
                    + res.summary.totalStopSeconds
                    = InstantOf(samples[Len(samples)].time_indicator)
                        - InstantOf(samples[1].time_indicator)

\* C22.  The segments of a report are the maximal runs of the samples, in
\* the order of time: every sample is in one segment and no other, a
\* segment begins after the one before it has ended, two segments next to
\* each other differ in type, a segment is Drive when the velocity of each
\* of its samples is 1 km/h or more and Stop when each is less, its
\* durationSeconds is the seconds from its first to its last sample and
\* never negative; and without a sample the answer is 200 with no segment
\* and a summary of zeros.
ReportIsRunLength ==
  Reported
    => LET res == ret.value
           segs == res.segments
           samples == Samples
       IN /\ ~ret.threw
          /\ res.status = 200
          /\ res.ok
          /\ Len(samples) = 0
               => /\ segs = << >>
                  /\ res.summary = [totalDrive |-> 0, totalStop |-> 0,
                                    totalDistance |-> 0]
          /\ \A i \in 1..Len(samples) :
               Cardinality({k \in 1..Len(segs) :
                              i \in SamplesOf(samples, segs[k])}) = 1
          /\ \A k \in 1..Len(segs) :
               /\ SamplesOf(samples, segs[k]) # {}
               /\ segs[k].type \in {"Drive", "Stop"}
               /\ \A i \in SamplesOf(samples, segs[k]) :
                    segs[k].type = "Drive" <=> VelocityAt(samples, i) >= 1
               /\ segs[k].durationSeconds >= 0
               /\ segs[k].durationSeconds
                    = InstantOf(segs[k].endTime) - InstantOf(segs[k].startTime)
               /\ k < Len(segs)
                    => /\ segs[k].type # segs[k + 1].type
                       /\ InstantOf(segs[k].endTime)
                            < InstantOf(segs[k + 1].startTime)

\* The five samples with velocities 0, 1, 10, null, 0 are reported as the
\* segments Stop, Drive, Stop of 0, 60 and 60 seconds.
ReportIsRunLengthWitness ==
  /\ Reported
  /\ [i \in 1..Len(Samples) |-> Samples[i].velocity] = <<0, 1, 10, NULL, 0>>
  /\ [k \in 1..Len(ret.value.segments) |->
        <<ret.value.segments[k].type, ret.value.segments[k].durationSeconds>>]
       = <<<<"Stop", 0>>, <<"Drive", 60>>, <<"Stop", 60>>>>

RECURSIVE SumSeq(_)
SumSeq(s) == IF s = << >> THEN 0 ELSE Head(s) + SumSeq(Tail(s))

\* The first and the last sample of a segment.
FirstOf(samples, seg) ==
  samples[CHOOSE i \in SamplesOf(samples, seg) :
            \A j \in SamplesOf(samples, seg) : i <= j]

LastSampleOf(samples, seg) ==
  samples[CHOOSE i \in SamplesOf(samples, seg) :
            \A j \in SamplesOf(samples, seg) : i >= j]

\* C39.  A sample without a velocity lies in a Stop segment; a segment of
\* which the first sample or the last has a latitude or a longitude that
\* is null or 0 has the distance 0; totalDistance is the sum of the
\* distances of the Drive segments, totalDriveSeconds the sum of their
\* durations, and totalStopSeconds the sum of the durations of the Stop
\* segments.
NullVelocityStopsAndTotalsByType ==
  Reported
    => LET res == ret.value
           segs == res.segments
           samples == Samples
           Unknown == {NULL, 0}
       IN /\ \A i \in 1..Len(samples) :
               samples[i].velocity = NULL
                 => /\ \E k \in 1..Len(segs) :
                         i \in SamplesOf(samples, segs[k])
                    /\ \A k \in 1..Len(segs) :
                         i \in SamplesOf(samples, segs[k])
                           => segs[k].type = "Stop"
          /\ \A k \in 1..Len(segs) :
               LET first == FirstOf(samples, segs[k])
                   last == LastSampleOf(samples, segs[k])
               IN ( \/ first.latitude \in Unknown
                    \/ first.longitude \in Unknown
                    \/ last.latitude \in Unknown
                    \/ last.longitude \in Unknown )
                    => segs[k].distance = 0
          /\ Len(samples) > 0
               => /\ res.summary.totalDistance
                       = SumSeq([k \in 1..Len(segs) |->
                                   IF segs[k].type = "Drive"
                                   THEN segs[k].distance ELSE 0])
                  /\ res.summary.totalDriveSeconds
                       = SumSeq([k \in 1..Len(segs) |->
                                   IF segs[k].type = "Drive"
                                   THEN segs[k].durationSeconds ELSE 0])
                  /\ res.summary.totalStopSeconds
                       = SumSeq([k \in 1..Len(segs) |->
                                   IF segs[k].type = "Stop"
                                   THEN segs[k].durationSeconds ELSE 0])

\* Three samples a minute apart: the first at 10 km/h without a latitude,
\* the others without a velocity at 40 and at 41 degrees.  The report has a
\* Drive segment of distance 0 and a Stop segment of 60 seconds and 133.4
\* km, of which the summary counts the seconds as stop time and no
\* distance.
NullVelocityStopsAndTotalsByTypeWitness ==
  /\ Reported
  /\ [i \in 1..Len(Samples) |->
        <<Samples[i].velocity, Samples[i].latitude, Samples[i].longitude>>]
       = <<<<10, NULL, 29>>, <<NULL, 40, 29>>, <<NULL, 41, 29>>>>
  /\ [k \in 1..Len(ret.value.segments) |->
        <<ret.value.segments[k].type, ret.value.segments[k].distance>>]
       = <<<<"Drive", 0>>, <<"Stop", 1334>>>>
  /\ ret.value.summary.totalDistance = 0
  /\ ret.value.summary.totalDriveSeconds = 0
  /\ ret.value.summary.totalStopSeconds = 60

(***************************************************************************)
(* The speed check under any reading: checkSpeedOnly, minute by minute     *)
(***************************************************************************)
\* The readings a speed check is given, each with the instant of the check.
Readings(vehicles) ==
  {[vehicleId |-> vehicles[i].vehicleid, velocity |-> vehicles[i].velocity,
    at |-> now] : i \in 1..Len(vehicles)}

\* A poll of checkSpeedOnly at an instant at which no reading has been
\* logged, and the log of its readings when its check has run.
SpeedPoll(batches) ==
  /\ \A o \in observed : o.at # now
  /\ \E b \in batches :
       /\ CheckSpeedOnly({Configured}, {SessionUp}, {b})
       /\ observed' = IF call'.fetched THEN observed \cup Readings(b)
                      ELSE observed
  /\ UNCHANGED job

\* Vehicle 1 without velocity, at the limit and twice above it; vehicle 2
\* above it.
SpeedVehicles ==
  {Vehicle(1, vel, NullText, NULL, NULL, NULL, NULL) :
     vel \in {NULL, SPEED_LIMIT, 100, 120}}
  \cup {Vehicle(2, 100, NullText, NULL, NULL, NULL, NULL)}

\* A batch of one vehicle or none, vehicle 1 twice with two speeds, or the
\* two vehicles.
SpeedBatches ==
  SeqsUpTo(SpeedVehicles, 1)
  \cup {<<Vehicle(1, a, NullText, NULL, NULL, NULL, NULL),
          Vehicle(1, 220 - a, NullText, NULL, NULL, NULL, NULL)>> :
          a \in {100, 120}}
  \cup {<<Vehicle(1, 100, NullText, NULL, NULL, NULL, NULL),
          Vehicle(2, 100, NullText, NULL, NULL, NULL, NULL)>>}

\* The instants of the polls: 0, 3, 6 and 11 minutes after the start.
SpeedClocks == {StartTime + m * MsPerMinute : m \in {0, 3, 6, 11}}

SpeedPolls == SpeedPoll(SpeedBatches)

SpeedTick == Tick(SpeedClocks)

InitSpeed == Idle

NextSpeed == SpeedPolls \/ SpeedTick

SpecSpeed == InitSpeed /\ [][NextSpeed]_vars

(***************************************************************************)
(* Claims about the speed check, under SpecSpeed                           *)
(***************************************************************************)
TenMinutes == 10 * MsPerMinute

\* The poll that ran last has run its speed check.
Checked == call.op \in {"refreshOnce", "checkSpeedOnly"} /\ ~ret.threw

\* The vehicles a check has found at or over the limit, as the code tests
\* it, within the last `age` seconds.
OverWithin(log, age) ==
  {o.vehicleId : o \in {x \in log : /\ x.velocity # NULL
                                    /\ x.velocity >= SPEED_LIMIT
                                    /\ now - x.at <= age}}

\* C23.  When a speed check has run, no entry of maxSpeedTracker is more
\* than 5 minutes old and no entry of recentSpeedAlerts more than 10; so
\* either table holds only vehicles a check has found over the limit within
\* the last 10 minutes, and no more entries than there are such vehicles.
AlertTablesSwept ==
  Checked
    => /\ \A id \in DOMAIN maxSpeedTracker :
            now - maxSpeedTracker[id].timestamp <= FiveMinutes
       /\ \A id \in DOMAIN recentSpeedAlerts :
            now - recentSpeedAlerts[id] <= TenMinutes
       /\ DOMAIN maxSpeedTracker \subseteq OverWithin(observed, TenMinutes)
       /\ DOMAIN recentSpeedAlerts \subseteq OverWithin(observed, TenMinutes)
       /\ Cardinality(DOMAIN maxSpeedTracker)
            <= Cardinality(OverWithin(observed, TenMinutes))
       /\ Cardinality(DOMAIN recentSpeedAlerts)
            <= Cardinality(OverWithin(observed, TenMinutes))

\* Vehicle 1 was over the limit at the start and 6 minutes later, vehicle
\* 2 never: the check at 11 minutes has dropped the entry of the start,
\* and the tables hold the debounce entry of vehicle 1 alone.
AlertTablesSweptWitness ==
  /\ Checked
  /\ now = StartTime + 11 * MsPerMinute
  /\ [vehicleId |-> 1, velocity |-> 100, at |-> StartTime] \in observed
  /\ [vehicleId |-> 1, velocity |-> 100, at |-> StartTime + 6 * MsPerMinute]
       \in observed
  /\ \A o \in observed : o.at = now => o.velocity = NULL
  /\ DOMAIN maxSpeedTracker = {}
  /\ DOMAIN recentSpeedAlerts = {1}
  /\ recentSpeedAlerts[1] = StartTime + 6 * MsPerMinute

\* The readings of the vehicle in the poll of the step.
ReadingsOf(id) ==
  {o.velocity : o \in {x \in observed' \ observed : x.vehicleId = id}}

\* The poll of the step has written the max-speed entry of the vehicle.
Written(id) ==
  /\ Has(maxSpeedTracker', id)
  /\ maxSpeedTracker'[id].timestamp = now
  /\ Has(maxSpeedTracker, id) => maxSpeedTracker[id] # maxSpeedTracker'[id]

\* C24 (as stated).  In a poll that reads a vehicle once, its max-speed
\* entry is written exactly when the reading exceeds 94 km/h and there is
\* no entry for it, or its entry is more than 5 minutes old, or the reading
\* is higher than the stored maximum; a reading that does not exceed 94
\* km/h, a null one included, writes no max-speed entry, sets no debounce
\* entry and sends no alert.
MaxSpeedUpdateRule ==
  [][(Polled /\ observed' # observed)
       => \A id \in VehicleIds : \A v \in ReadingsOf(id) :
            Cardinality(ReadingsOf(id)) = 1
              => LET exceeds == v # NULL /\ v > 94
                 IN /\ Written(id)
                         <=> /\ exceeds
                             /\ \/ ~Has(maxSpeedTracker, id)
                                \/ now - maxSpeedTracker[id].timestamp
                                     > FiveMinutes
                                \/ v > maxSpeedTracker[id].maxSpeed
                    /\ ~exceeds
                         => /\ ~Written(id)
                            /\ ~( /\ Has(recentSpeedAlerts', id)
                                  /\ recentSpeedAlerts'[id] = now )
                            /\ AlertsFor(id, sink'.batch) = {}
    ]_vars

\* The highest reading at or over the limit that the checks of the last 5
\* minutes, the latest included, have had of the vehicle.
WindowMax(id) ==
  LET seen == {o.velocity :
                 o \in {x \in observed : /\ x.vehicleId = id
                                         /\ x.velocity # NULL
                                         /\ x.velocity >= SPEED_LIMIT
                                         /\ now - x.at <= FiveMinutes}}
  IN CHOOSE m \in seen : \A v \in seen : v <= m

\* C25 (as stated).  The maxSpeed of an alert is the highest velocity over
\* the limit that any poll of the preceding 5 minutes, the poll of the
\* alert included, has read of the vehicle.
AlertMaxIsWindowMax ==
  Checked
    => \A i \in 1..Len(sink.batch) :
         sink.batch[i].maxSpeed = WindowMax(sink.batch[i].vehicleId)

MetadataKeys ==
  {"type", "vehicleId", "plate", "velocity", "maxSpeed", "driver", "location",
   "timestamp"}

\* C26.  Every alert the sink is handed goes to the channel
\* 'driver-alerts' with the metadata type, vehicleId, plate, velocity,
\* maxSpeed, driver, location and timestamp; its maxSpeed is never below
\* its velocity; and its text names the maximum of the window exactly when
\* maxSpeed is above the velocity.
AlertContent ==
  Checked
    => \A i \in 1..Len(sink.batch) :
         LET a == sink.batch[i]
         IN /\ a.channel = "driver-alerts"
            /\ DOMAIN a = MetadataKeys \cup {"channel", "text"}
            /\ a.type = "speed_violation"
            /\ a.timestamp = toISOString(now)
            /\ \E o \in observed :
                 /\ o.at = now
                 /\ o.vehicleId = a.vehicleId
                 /\ o.velocity = a.velocity
            /\ a.maxSpeed >= a.velocity
            /\ a.text.velocity = a.velocity
            /\ a.text.windowMax # << >> <=> a.maxSpeed > a.velocity
            /\ a.text.windowMax # << >> => a.text.windowMax = <<a.maxSpeed>>

\* Vehicle 1 has been read at 100 km/h, 3 minutes later at 120 km/h and
\* after 3 more minutes at 100 km/h again: the second alert names 100 km/h
\* and a maximum of 120 km/h.
AlertContentWitness ==
  /\ Checked
  /\ now = StartTime + 6 * MsPerMinute
  /\ observed = {[vehicleId |-> 1, velocity |-> 100, at |-> StartTime],
                 [vehicleId |-> 1, velocity |-> 120,
                  at |-> StartTime + 3 * MsPerMinute],
                 [vehicleId |-> 1, velocity |-> 100, at |-> now]}
  /\ Len(sink.batch) = 1
  /\ sink.batch[1].vehicleId = 1
  /\ sink.batch[1].velocity = 100
  /\ sink.batch[1].maxSpeed = 120
  /\ sink.batch[1].text.windowMax = <<120>>


(***************************************************************************)
(* The retries of the client                                               *)
(***************************************************************************)
\* A call of executeReturnSet(env, functionName, args) at the clock's
\* instant: call.failures is the number of its requests that fail before
\* one answers, call.log its requests and its sleeps; it returns the
\* attempt whose result it returns, or throws the error kept in lastError.
ExecuteReturnSet(scripts, failureCounts) ==
  \E script \in scripts, failures \in failureCounts :
    \E b \in {Behaviour(script, failures, EmptyPayload)} :
      \E r \in {executeReturnSet(tokenCache, now, b)},
         l \in {executeReturnSetLog(tokenCache, now, b)} :
        /\ tokenCache' = r.tokenCache
        /\ call' = [op |-> "executeReturnSet", cache |-> tokenCache,
                     failures |-> failures, log |-> l.log]
        /\ ret' = IF r.threw THEN Raised(l.lastError)
                  ELSE Returned(l.answered)
        /\ UNCHANGED <<now, dbVars, alertVars, job>>

\* What becomes of the requests of one loop.
Outcomes(kinds) == [1..maxAttempts -> kinds]

\* A call of callFunction(env, functionName, params, options) at the
\* clock's instant: call.direct and call.withToken are what becomes of the
\* requests of its two strategies, call.skipTokenFallback is the option.
CallFunction(skips, scripts) ==
  \E direct \in Outcomes({"ok", "fail", "auth"}), skip \in skips,
     script \in scripts, withToken \in Outcomes({"ok", "fail"}) :
    \E r \in {callFunction(tokenCache, now, direct, skip, script,
                           withToken)} :
      /\ tokenCache' = r.tokenCache
      /\ call' = [op |-> "callFunction", cache |-> tokenCache,
                   direct |-> direct, skipTokenFallback |-> skip,
                   log |-> r.log]
      /\ ret' = IF r.threw THEN Raised(r.lastError) ELSE Returned(NULL)
      /\ UNCHANGED <<now, dbVars, alertVars, job>>

\* The end of an attempt of ensureToken whose last response, data, holds
\* no token: the error thrown carries the summary of data.
ParseFailure(datas) ==
  \E data \in datas :
    /\ call' = [op |-> "summarizeInitializeSessionResponse", data |-> data]
    /\ ret' = Raised([kind |-> "parse",
                      summaryLength |-> summaryLength(data)])
    /\ UNCHANGED <<now, dbVars, alertVars, clientVars>>

\* Responses without a token: null, a number, texts of up to 5000
\* characters, objects of up to 13 keys of 1 to 40 characters each.
Responses ==
  {NullData, OtherData(1), OtherData(5)}
  \cup {TextData(n) : n \in {0, 11, 239, 240, 241, 5000}}
  \cup {ObjectData([k \in 1..n |-> m]) :
          n \in {0, 1, 12, 13}, m \in {1, 17, 18, 40}}

\* One call of the client, with its token cache empty or holding a token
\* of an earlier call.
RetryExecutes ==
  call.op = "none" /\ ExecuteReturnSet(TokenScripts, 0..maxAttempts)
RetryFailures == call.op = "none" /\ ParseFailure(Responses)
RetryFetches == FetchOnce
RetryTokens == call.op = "none" /\ EnsureToken(TokenScripts, {0}, {StartTime})
RetryCalls == call.op = "none" /\ CallFunction(BOOLEAN, TokenScripts)

InitRetry == InitFetch

NextRetry ==
  \/ RetryExecutes
  \/ RetryTokens
  \/ RetryCalls
  \/ RetryFailures
  \/ RetryFetches

SpecRetry == InitRetry /\ [][NextRetry]_vars

\* The requests of a log sent to a target, and the places of the log
\* they are at.
RequestsAt(log, target) ==
  {i \in 1..Len(log) : log[i].kind = "request" /\ log[i].target = target}

\* The schedule of a loop of at most three attempts in a log: the attempts
\* to the target are numbered from 1 on and are three at most; a request
\* that answers is the last event of the log; failed attempt k is followed
\* at once by a sleep of 250 ms x k when k is 1 or 2, and by no sleep when
\* k is 3; no other sleep follows a request to the target.  An attempt of
\* ensureToken is one request, or two when the first response holds no
\* token: the attempt has failed when its last request has failed or has
\* brought no token.
EndsAttempt(log, i) ==
  \/ i = Len(log)
  \/ log[i + 1].kind = "sleep"
  \/ log[i + 1].target # log[i].target
  \/ log[i + 1].attempt # log[i].attempt

Schedule(log, target) ==
  \A i \in RequestsAt(log, target) :
    /\ log[i].attempt \in 1..3
    /\ \A j \in RequestsAt(log, target) :
         j < i => log[j].attempt <= log[i].attempt
    /\ log[i].outcome \in {"ok", "auth"}
         => \A j \in RequestsAt(log, target) : j <= i
    /\ (EndsAttempt(log, i) /\ log[i].outcome \in {"fail", "notoken"})
         => IF log[i].attempt < 3
            THEN /\ i < Len(log)
                 /\ log[i + 1] = Sleep(250 * log[i].attempt)
            ELSE i = Len(log) \/ log[i + 1].kind # "sleep"
    /\ (i < Len(log) /\ log[i + 1].kind = "sleep")
         => log[i].outcome \in {"fail", "notoken"}

\* C27.  executeReturnSet issues at most 3 ExecuteReturnSet requests; it
\* returns the result of the first that succeeds and issues none after it;
\* it waits 250 ms x k after failed attempt k = 1, 2 and does not wait
\* after the third; after three failures it throws the error of the third
\* attempt.  ensureToken follows the same schedule of 3 attempts and
\* 250 ms x k.
RetryBudget ==
  /\ call.op = "executeReturnSet"
       => LET own == RequestsAt(call.log, "ExecuteReturnSet")
          IN /\ Cardinality(own) <= 3
             /\ Schedule(call.log, "ExecuteReturnSet")
             /\ Schedule(call.log, "InitializeSession")
             /\ ~ret.threw
                  => /\ ret.value = call.failures + 1
                     /\ Cardinality(own) = ret.value
                     /\ call.log[Len(call.log)].outcome = "ok"
                     /\ call.log[Len(call.log)].attempt = ret.value
             /\ (ret.threw /\ own # {})
                  => /\ Cardinality(own) = 3
                     /\ ret.error = AttemptError("ExecuteReturnSet", 3,
                                                 "fail")
                     /\ call.log[Len(call.log)].kind = "request"
  /\ call.op = "ensureToken"
       => /\ Schedule(call.log, "InitializeSession")
          /\ Cardinality(RequestsAt(call.log, "InitializeSession"))
               = call.requests
          /\ call.requests <= 2 * 3

\* Two requests of executeReturnSet have failed and the third has
\* answered: the call has waited 250 ms and then 500 ms.
RetryBudgetWitness ==
  /\ call.op = "executeReturnSet"
  /\ call.cache.token = NULL
  /\ ret = Returned(3)
  /\ call.log = <<httpGetJson("InitializeSession", 10000, 1, "ok"),
                  httpGetJson("ExecuteReturnSet", 20000, 1, "fail"),
                  Sleep(250),
                  httpGetJson("ExecuteReturnSet", 20000, 2, "fail"),
                  Sleep(500),
                  httpGetJson("ExecuteReturnSet", 20000, 3, "ok")>>


\* The places of the log of a call of callFunction where a direct request
\* has brought the authentication-error marker.
Rejections ==
  {i \in RequestsAt(call.log, "direct") : call.log[i].outcome = "auth"}

\* The token strategy has begun after place i of the log: a request of
\* ensureToken or a request with the token follows at once.
TokenStrategyAfter(i) ==
  /\ i < Len(call.log)
  /\ call.log[i + 1].kind = "request"
  /\ call.log[i + 1].target \in {"InitializeSession", "token"}

\* A direct request that fails is retried: up to 3 attempts, with a wait
\* of 250 ms x the attempt's number between them.
DirectRetried ==
  /\ Schedule(call.log, "direct")
  /\ \A i \in RequestsAt(call.log, "direct") :
       (call.log[i].outcome = "fail" /\ call.log[i].attempt < 3)
         => /\ i + 2 <= Len(call.log)
            /\ call.log[i + 2].kind = "request"
            /\ call.log[i + 2].target = "direct"
            /\ call.log[i + 2].attempt = call.log[i].attempt + 1

SummaryBounded ==
  call.op = "summarizeInitializeSessionResponse"
    => ret.error.summaryLength <= 240


\* The logs of the call: that of each candidate of fetchLiveVehicles, or
\* the one of a call of ensureToken, executeReturnSet or callFunction.
Logs ==
  IF call.op = "fetchLiveVehicles" THEN call.logs
  ELSE IF call.op \in {"ensureToken", "executeReturnSet", "callFunction"}
  THEN <<call.log>>
  ELSE << >>

RECURSIVE RequestCount(_, _)
RequestCount(logs, k) ==
  IF k = 0 THEN 0
  ELSE Cardinality({i \in 1..Len(logs[k]) : logs[k][i].kind = "request"})
       + RequestCount(logs, k - 1)

\* One token acquisition of 3 attempts at most, then 3 ExecuteReturnSet
\* attempts at most, with 4 sleeps at most of half a second at most.
OneCandidate(log) ==
  /\ Schedule(log, "InitializeSession")
  /\ Schedule(log, "ExecuteReturnSet")
  /\ Cardinality(RequestsAt(log, "InitializeSession")) <= 2 * 3
  /\ Cardinality(RequestsAt(log, "ExecuteReturnSet")) <= 3
  /\ \A i \in RequestsAt(log, "InitializeSession") :
       \A j \in RequestsAt(log, "ExecuteReturnSet") : i < j
  /\ Cardinality({i \in 1..Len(log) : log[i].kind = "sleep"}) <= 4
  /\ \A i \in 1..Len(log) : log[i].kind = "sleep" => log[i].ms <= 500
  /\ \A i \in 1..Len(log) :
       log[i].kind = "request"
         => log[i].target \in {"InitializeSession", "ExecuteReturnSet"}

\* C30.  Every HTTP request is issued with a timeout of 10 to 20 seconds,
\* and a call of fetchLiveVehicles ends, with a result or an error, after
\* a bounded number of requests and sleeps: it tries 4 candidates at most,
\* each with one token acquisition of 3 attempts at most and 3
\* ExecuteReturnSet attempts at most.
NoUnboundedBlocking ==
  /\ \A k \in 1..Len(Logs) :
       \A i \in 1..Len(Logs[k]) :
         Logs[k][i].kind = "request"
           => Logs[k][i].timeout \in (10 * 1000)..(20 * 1000)
  /\ call.op = "fetchLiveVehicles"
       => /\ Len(call.attempts) <= 4
          /\ Len(call.logs) = Len(call.attempts)
          /\ \A k \in 1..Len(call.logs) : OneCandidate(call.logs[k])
          /\ call.requests = RequestCount(call.logs, Len(call.logs))
          /\ call.requests <= 4 * (2 * 3 + 3)

\* The endpoint configured is none of the three alternates, and no
\* candidate has let a request through: the call has tried four
\* candidates, three ExecuteReturnSet requests each, and has thrown.
NoUnboundedBlockingWitness ==
  /\ call.op = "fetchLiveVehicles"
  /\ ret.threw
  /\ Len(call.attempts) = 4
  /\ \A k \in 1..4 :
       Cardinality(RequestsAt(call.logs[k], "ExecuteReturnSet")) = 3
  /\ Cardinality(RequestsAt(call.logs[1], "InitializeSession")) = 1


\* The call has brought a token: a request of InitializeSession of its has
\* been answered with one.
Acquired ==
  \E k \in 1..Len(Logs) :
    \E i \in 1..Len(Logs[k]) :
      /\ Logs[k][i].kind = "request"
      /\ Logs[k][i].target = "InitializeSession"
      /\ Logs[k][i].outcome = "ok"

\* C34.  The token cache changes only when a token is acquired: a call
\* that has extracted a token writes token and expiresAt together; a call
\* of ensureToken that fails leaves the cache as it was; and a payload
\* with an API error, a failed ExecuteReturnSet request or the fallback to
\* another endpoint neither clears nor replaces a cached token.
TokenCacheFrame ==
  [][/\ tokenCache' # tokenCache
          => /\ Acquired'
             /\ tokenCache'.token # NULL
             /\ tokenCache'.expiresAt = now' + TOKEN_TTL
     /\ (call'.op = "ensureToken" /\ ret'.threw)
          => tokenCache' = tokenCache
     /\ Cached(tokenCache, now) => tokenCache' = tokenCache
    ]_vars

\* fetchLiveVehicles has found a token in the cache and has tried four
\* candidates: the first has answered with an API error, no
\* ExecuteReturnSet request of the second has come through.  The call has
\* thrown, and the cache holds the token it held.
TokenCacheFrameWitness ==
  /\ call.op = "fetchLiveVehicles"
  /\ call.cache.token = 2
  /\ ret.threw
  /\ Len(call.attempts) = 4
  /\ call.run[1] = Behaviour(SessionUp, 0, ErrorPayload)
  /\ call.run[2] = Behaviour(SessionUp, maxAttempts, EmptyPayload)
  /\ tokenCache = call.cache

(***************************************************************************)
(* ensureToken, call by call and await by await                            *)
(***************************************************************************)
\* A call of ensureToken between its awaits: the poll that has made it,
\* where it stands ("request": a request of the attempt and variant given
\* is in flight; "sleep": it sleeps after a failed attempt; "returned",
\* "threw"), the requests it has issued, the token it has returned, and
\* whether another call was standing at an await when it was made.
Acquisition(by, pc, attempt, variant, requests, token, concurrent) ==
  [op |-> "ensureToken", by |-> by, pc |-> pc, attempt |-> attempt,
   variant |-> variant, requests |-> requests, token |-> token,
   concurrent |-> concurrent]

\* The calls that stand at an await.
Awaiting ==
  {i \in 1..Len(job.inFlight) : job.inFlight[i].pc \in {"request", "sleep"}}

\* ensureToken up to its first await: the token of the cache, or the first
\* request of the first attempt.
TokenEnter(callers) ==
  \E by \in callers :
    /\ \A i \in 1..Len(job.inFlight) : job.inFlight[i].by # by
    /\ job' = [job EXCEPT !.inFlight =
                 Append(@, IF Cached(tokenCache, now)
                           THEN Acquisition(by, "returned", 0, 0, 0,
                                            tokenCache.token, Awaiting # {})
                           ELSE Acquisition(by, "request", 1, 1, 1, NULL,
                                            Awaiting # {}))]
    /\ call' = [op |-> "ensureToken", by |-> by, event |-> "call"]
    /\ ret' = IF Cached(tokenCache, now) THEN Returned(tokenCache.token)
              ELSE Returned(NULL)
    /\ UNCHANGED <<now, dbVars, alertVars, tokenCache>>

\* The response to the request of a call arrives: a token, which the call
\* writes into the cache and returns; no token in the xml variant, after
\* which the call issues the json variant; or else the attempt has failed,
\* and the call sleeps, or throws when the attempt was the third.
TokenResponse(answers) ==
  \E i \in 1..Len(job.inFlight), answer \in answers :
    \E a \in {job.inFlight[i]} :
      /\ a.pc = "request"
      /\ call' = [op |-> "ensureToken", by |-> a.by, event |-> "response"]
      /\ IF answer # HttpError /\ answer # NoTokenIn
         THEN /\ tokenCache' = [token |-> answer,
                                expiresAt |-> Expiry(now, 0)]
              /\ job' = [job EXCEPT !.inFlight[i] =
                           [a EXCEPT !.pc = "returned", !.token = answer]]
              /\ ret' = Returned(answer)
         ELSE IF answer = NoTokenIn /\ a.variant = 1
         THEN /\ job' = [job EXCEPT !.inFlight[i] =
                           [a EXCEPT !.variant = 2,
                                     !.requests = a.requests + 1]]
              /\ ret' = Returned(NULL)
              /\ UNCHANGED tokenCache
         ELSE /\ job' = [job EXCEPT !.inFlight[i] =
                           [a EXCEPT !.pc = IF a.attempt < maxAttempts
                                            THEN "sleep" ELSE "threw"]]
              /\ ret' = IF a.attempt < maxAttempts THEN Returned(NULL)
                        ELSE Raised(ErrorOf("InitializeSession", "session"))
              /\ UNCHANGED tokenCache
      /\ UNCHANGED <<now, dbVars, alertVars>>

\* The sleep of a call ends: the next attempt begins with its xml variant.
TokenWake ==
  \E i \in 1..Len(job.inFlight) :
    \E a \in {job.inFlight[i]} :
      /\ a.pc = "sleep"
      /\ job' = [job EXCEPT !.inFlight[i] =
                   [a EXCEPT !.pc = "request", !.attempt = a.attempt + 1,
                             !.variant = 1, !.requests = a.requests + 1]]
      /\ call' = [op |-> "ensureToken", by |-> a.by, event |-> "wake"]
      /\ ret' = Returned(NULL)
      /\ UNCHANGED <<now, dbVars, alertVars, tokenCache>>

\* The polls that call the client: the refresh and the speed check, which
\* startGpsRefreshJob lets run beside each other.
Callers == {"refreshOnce", "checkSpeedOnly"}

RaceEnters == TokenEnter(Callers)
RaceResponses == TokenResponse({HttpError, NoTokenIn, 1, 2})

InitRace == Idle

NextRace == RaceEnters \/ RaceResponses \/ TokenWake

SpecRace == InitRace /\ [][NextRace]_vars

\* C31 as stated.  A call of ensureToken made while another stands at an
\* await of its acquisition issues no InitializeSession request and
\* returns the token that acquisition brings: one acquisition at most is
\* in flight at any time.
SingleFlight ==
  /\ Cardinality({i \in Awaiting : job.inFlight[i].requests > 0}) <= 1
  /\ \A i \in 1..Len(job.inFlight) :
       job.inFlight[i].concurrent
         => /\ job.inFlight[i].requests = 0
            /\ \A j \in 1..(i - 1) :
                 (job.inFlight[i].pc = "returned"
                    /\ job.inFlight[j].pc = "returned")
                   => job.inFlight[i].token = job.inFlight[j].token


(***************************************************************************)
(* getTodayStartValues over a history of any content                       *)
(***************************************************************************)
\* The clock two hours before the midnight of UTC+3 the rows of
\* DailyTables lie around, two hours after it, and a day later.
TodayClocks ==
  {StartTime - turkeyOffset + k * MsPerHour : k \in {0 - 2, 2, 26}}

InitToday ==
  /\ now \in TodayClocks
  /\ gps_vehicle_last = EmptyBag
  /\ gps_vehicle_history \in DailyTables
  /\ recentSpeedAlerts = << >>
  /\ maxSpeedTracker = << >>
  /\ sink = NoAlerts
  /\ observed = {}
  /\ tokenCache = EmptyTokenCache
  /\ job = NotStarted
  /\ call = [op |-> "none"]
  /\ ret = Returned(NULL)

GetTodayStartOnce == call.op = "none" /\ GetTodayStartValues

NextToday == GetTodayStartOnce

SpecToday == InitToday /\ [][NextToday]_vars

\* The midnight of UTC+3 that begins the day of the clock.
DayStart ==
  CHOOSE m \in {d * MsPerDay - turkeyOffset : d \in 0..(now \div MsPerDay + 1)} :
    m <= now /\ now < m + MsPerDay

\* The rows of a vehicle inside the current day of UTC+3.
RowsOfDay(id) ==
  {r \in Rows(gps_vehicle_history) :
     /\ r.vehicleid = id
     /\ r.time_indicator # NullText
     /\ InstantOf(r.time_indicator) >= DayStart
     /\ InstantOf(r.time_indicator) < DayStart + MsPerDay}

EarliestOfDay(id) ==
  CHOOSE r \in RowsOfDay(id) :
    \A x \in RowsOfDay(id) :
      InstantOf(r.time_indicator) <= InstantOf(x.time_indicator)

\* C32 as stated.  getTodayStartValues has an entry for exactly the
\* vehicles with a row inside the current day of UTC+3: the counters of
\* the earliest such row, a null counter as 0.  A vehicle without a row
\* inside the day has no entry; rows of earlier and of later days never
\* serve as the baseline.
TodayStartOfDay ==
  call.op = "getTodayStartValues"
    => /\ DOMAIN ret.value = {id \in VehicleIds : RowsOfDay(id) # {}}
       /\ \A id \in DOMAIN ret.value :
            RowsOfDay(id) # {}
              => ret.value[id]
                   = [drivetime |-> Value(EarliestOfDay(id).drivetime),
                      worktime |-> Value(EarliestOfDay(id).worktime),
                      idletime |-> Value(EarliestOfDay(id).idletime),
                      stoptime |-> Value(EarliestOfDay(id).stoptime)]

====
